---- MODULE Spec2Model ----
(***************************************************************************)
(* Translation pipeline of multimedia-server-toolkit:                      *)
(*   - the batch orchestrator  (src/translator/translator_batcher.py)      *)
(*   - the persistent cache    (src/translator/translation_cache.py)       *)
(*   - the facade              (src/translator/translator.py, 1197-1253)   *)
(* A text is a sequence of one-character strings; a list of texts is a     *)
(* sequence of texts; Python's None / Optional is a sequence of length 0   *)
(* or 1 wrapped around the value.                                          *)
(***************************************************************************)
EXTENDS Integers, Sequences, FiniteSets, TLC

\* ------------------------------------------------------------------ bounds
MaxTexts == 4
MaxChunkArg == 3
MaxAttemptsArg == 3
MaxEntries == 2
MaxMany == 3
MaxTextLen == 3
MaxCapacity == 2
MaxTokens == 2

\* ------------------------------------------------------- program constants
DEFAULT_BATCH_SIZE == 20
MAX_ATTEMPTS == 3
\* translator_cache_ttl_seconds, scaled from 30 days to clock ticks
DEFAULT_TTL == 1
\* dividir_texto: max_chars
MAX_CHARS == 2048
\* _split_text_by_token_limit: the least length of a coarse character slice
MIN_SLICE == 200
\* the clock runs until an entry written at time 0 has expired
MaxClock == DEFAULT_TTL + 1

\* ------------------------------------------------------------------- values
None == <<>>
Some(v) == <<v>>

\* The input lists: n pairwise distinct one-letter texts, so that a dropped,
\* duplicated or misplaced item shows in the output.
Letters == <<"a", "b", "c", "d", "e", "f">>
BatchTexts(n) == [i \in 1..n |-> <<Letters[i]>>]

Max(a, b) == IF a >= b THEN a ELSE b
Min(a, b) == IF a <= b THEN a ELSE b

\* What a working backend returns for one text, and what the single-item
\* fallback returns for it: both differ from the text and from each other.
BackendText(t) == <<"#">> \o t
FallbackText(t) == <<"~">> \o t

MapSeq(F(_), s) == [i \in 1..Len(s) |-> F(s[i])]

VARIABLES
  pc,                \* position of run_batched_translation
  texts,             \* argument texts
  chunk_size,        \* argument chunk_size, as passed
  max_attempts,      \* argument max_attempts, as passed
  fallback_translate,\* TRUE when a fallback function was passed
  results,           \* local results
  batch_idx,         \* loop variable of the outer for (0-based)
  attempt_idx,       \* loop variable of the inner for (1-based)
  translated_block,  \* local translated_block: None or Some(list)
  calls,             \* per chunk: number of translate_batch invocations
  first_valid,       \* per chunk: None or Some(list of the first valid attempt)
  fb_calls,          \* per chunk: number of fallback invocations
  fb_got,            \* per chunk: what the fallback returned, item by item
  progress,          \* the progress events emitted, in order
  last_outcome       \* what the latest translate_batch call of the chunk did

batch_vars == <<pc, texts, chunk_size, max_attempts, fallback_translate, results,
                batch_idx, attempt_idx, translated_block, calls, first_valid,
                fb_calls, fb_got, progress, last_outcome>>

\* ============================================== translation_cache.py
VARIABLES
  store,      \* content of translation_cache.json: key -> [ts, value]
  clock,      \* time.time()
  file_lock,  \* core.cache.file_lock: "free", or "held" by a caller that never returns
  config,     \* translator_cache_enabled, translator_cache_normalize_lower
  last,       \* the latest call on the cache or the facade, and what it returned
  stored      \* history: (language, normalized text) -> the value stored last

cache_vars == <<store, clock, file_lock, config, last, stored>>

\* ------------------------------ translation_cache.json as a file on disk
VARIABLES
  path_file,  \* translation_cache.json: [kind, data]
  tmp_file,   \* translation_cache.tmp: "none", "partial" or "complete"
  w,          \* the caller inside set / batch_set / _save_cache
  f_last      \* the latest call that returned, and what its caller saw

file_vars == <<path_file, tmp_file, w, f_last>>

\* ------------------------- the backends' in-memory part caches (translator.py)
VARIABLES
  lru_backend,  \* the class whose _part_cache this is: "local", "m2m", "aventiq"
  part_cache,   \* _part_cache, an OrderedDict: its items, oldest position first
  cache_size,   \* translator_cache_size, the capacity
  used,         \* history: the cached keys, least recently used first
  lru_last      \* the latest lookup or insertion

lru_vars == <<lru_backend, part_cache, cache_size, used, lru_last>>

\* --------------------------------------- the backends (translator.py, argos.py)
VARIABLES
  tr_last       \* the latest call of a backend's translate, and its result

tr_vars == <<tr_last>>

\* ------------------------------------- the selector (translator.py, get_translator)
VARIABLES
  last_announced,  \* _last_announced_backend: the name announced last
  announcements,   \* history: how many announcements were put on the ui queue
  sel_last         \* the latest call of get_translator, and the backend it returned

sel_vars == <<last_announced, announcements, sel_last>>

\* ------------------------- the segmenter (translator.py, _split_text_by_token_limit)
VARIABLES
  seg_last         \* the latest call of the segmenter, and the chunks it returned

seg_vars == <<seg_last>>

\* ------------------- model loading (translator.py, ensure_model_loaded, ensure_loaded)
VARIABLES
  forbidden,       \* _MODEL_LOADING_FORBIDDEN
  ld_tokenizer,    \* per kind: the tokenizer global / class attribute is set
  ld_model,        \* per kind: the model (for AventIQ the pipeline) is set
  ld_lock,         \* per kind: model_lock / cls._lock, "free" or its holder
  ld_pc,           \* per thread: where it is in the loading function
  ld_kind,         \* per thread: the kind it is loading
  ld_loads,        \* history, per kind: how many loads were started
  ld_late          \* history, per kind: a load was started after one had succeeded

load_vars == <<forbidden, ld_tokenizer, ld_model, ld_lock, ld_pc, ld_kind, ld_loads, ld_late>>

\* ---------------------- translation_cache.py called from several threads
VARIABLES
  c_pc,            \* per thread: where it is in its cache call
  c_call,          \* per thread: the call it is in
  c_data           \* per thread: its local data, as loaded and changed

conc_vars == <<c_pc, c_call, c_data>>

\* ------------------------------ the part caches called from several threads
VARIABLES
  p_pc,            \* per thread: where it is in its part cache operation
  p_op,            \* per thread: the key and value of the operation
  p_seen,          \* per thread: the cache as it was at the operation's membership test
  p_raced          \* history: a thread went on after another thread had changed the cache

part_vars == <<p_pc, p_op, p_seen, p_raced>>

\* the state of the components modelled further down
more_vars == <<seg_vars, load_vars, conc_vars, part_vars>>
ext_vars == <<file_vars, lru_vars, tr_vars, sel_vars, more_vars>>
\* what the actions of one component leave alone
not_file == <<batch_vars, cache_vars, lru_vars, tr_vars, sel_vars, more_vars>>
not_lru == <<batch_vars, cache_vars, file_vars, tr_vars, sel_vars, more_vars>>
not_tr == <<batch_vars, cache_vars, file_vars, lru_vars, sel_vars, more_vars>>
not_sel == <<batch_vars, cache_vars, file_vars, lru_vars, tr_vars, more_vars>>
not_seg == <<batch_vars, cache_vars, file_vars, lru_vars, tr_vars, sel_vars, load_vars,
            conc_vars, part_vars>>
not_load == <<batch_vars, cache_vars, file_vars, lru_vars, tr_vars, sel_vars, seg_vars,
             conc_vars, part_vars>>
\* the threads' part cache operations change the cache itself
not_part == <<batch_vars, cache_vars, file_vars, lru_backend, cache_size, used, lru_last,
             tr_vars, sel_vars, seg_vars, load_vars, conc_vars>>
\* the threads' cache calls change the store, the lock and the history
not_conc == <<batch_vars, clock, config, last, file_vars, lru_vars, tr_vars, sel_vars,
             seg_vars, load_vars, part_vars>>

vars == <<batch_vars, cache_vars, ext_vars>>

\* ------------------------------------------------ run_batched_translation
\* chunk = max(1, int(chunk_size or DEFAULT_BATCH_SIZE))
chunk_of(cs) == Max(1, IF cs = 0 THEN DEFAULT_BATCH_SIZE ELSE cs)

\* attempts_of without the lower limit of one attempt
attempts_of_unclamped(ma) == IF ma = 0 THEN MAX_ATTEMPTS ELSE ma

\* attempts = max(1, int(max_attempts or MAX_ATTEMPTS))
attempts_of(ma) == Max(1, IF ma = 0 THEN MAX_ATTEMPTS ELSE ma)

chunk == chunk_of(chunk_size)
attempts == attempts_of(max_attempts)
total == Len(texts)

\* the number of full chunks only
batches_of_floor(n, c) == n \div c
\* batches = ceil(total / chunk)
batches_of(n, c) == (n + c - 1) \div c
batches == batches_of(total, chunk)

start_of(b) == b * chunk
end_of(b) == Min(start_of(b) + chunk, total)

\* block = list(texts[start:end])   (0-based half-open slice)
block_of(b) == SubSeq(texts, start_of(b) + 1, end_of(b))

\* What translator.translate_batch(block) does on one call.  "ok": a list
\* with one translation per item; "short" / "long": a list of another
\* length; "nonlist": a value that is no list; "raise": an exception.
BatchOutcomes == {"ok", "short", "long", "nonlist", "raise"}

\* The returned value as [kind, val]; kind "exc" stands for a raised exception.
translate_batch(block, outcome) ==
  CASE outcome = "ok"      -> [kind |-> "list", val |-> MapSeq(BackendText, block)]
    [] outcome = "short"   -> [kind |-> "list",
                               val |-> MapSeq(BackendText, SubSeq(block, 1, Len(block) - 1))]
    [] outcome = "long"    -> [kind |-> "list",
                               val |-> Append(MapSeq(BackendText, block), <<"#">>)]
    [] outcome = "nonlist" -> [kind |-> "other", val |-> <<>>]
    [] outcome = "raise"   -> [kind |-> "exc", val |-> <<>>]

\* valid_response without the length test
valid_response_any_list(r, block) == r.kind = "list"

\* not (not isinstance(translated, list) or len(translated) != len(block))
valid_response(r, block) == r.kind = "list" /\ Len(r.val) = Len(block)

\* results[start:end] = translated_block
slice_assign(res, s, e, blk) == SubSeq(res, 1, s) \o blk \o SubSeq(res, e + 1, Len(res))

ZeroSeq(n) == [i \in 1..n |-> 0]
NoneSeq(n) == [i \in 1..n |-> None]

InitBatch ==
  /\ pc = "idle"
  /\ texts = <<>>
  /\ chunk_size = DEFAULT_BATCH_SIZE
  /\ max_attempts = MAX_ATTEMPTS
  /\ fallback_translate = FALSE
  /\ results = <<>>
  /\ batch_idx = 0
  /\ attempt_idx = 1
  /\ translated_block = None
  /\ calls = <<>>
  /\ first_valid = <<>>
  /\ fb_calls = <<>>
  /\ fb_got = <<>>
  /\ progress = <<>>
  /\ last_outcome = "none"

\* Lines 46-53: the call, the empty-input return, the locals.
Call(tx, cs, ma, fb) ==
  /\ pc = "idle"
  /\ texts' = tx
  /\ chunk_size' = cs
  /\ max_attempts' = ma
  /\ fallback_translate' = fb
  /\ IF tx = <<>>
       THEN /\ pc' = "returned"
            /\ results' = <<>>
            /\ calls' = <<>>
            /\ first_valid' = <<>>
            /\ fb_calls' = <<>>
            /\ fb_got' = <<>>
       ELSE /\ pc' = "attempt"
            /\ results' = [i \in 1..Len(tx) |-> <<>>]
            /\ calls' = ZeroSeq(batches_of(Len(tx), chunk_of(cs)))
            /\ first_valid' = NoneSeq(batches_of(Len(tx), chunk_of(cs)))
            /\ fb_calls' = ZeroSeq(batches_of(Len(tx), chunk_of(cs)))
            /\ fb_got' = NoneSeq(batches_of(Len(tx), chunk_of(cs)))
  /\ batch_idx' = 0
  /\ attempt_idx' = 1
  /\ translated_block' = None
  /\ progress' = <<>>
  /\ last_outcome' = "none"
  /\ UNCHANGED cache_vars
  /\ UNCHANGED ext_vars

\* after_failure with the fallback step left out
after_failure_no_fallback(idx) == IF idx < attempts THEN "attempt" ELSE "emit"

\* Where the inner for goes after a failed attempt (lines 64, 77, 86).
after_failure(idx) ==
  IF idx < attempts THEN "attempt"
  ELSE IF fallback_translate THEN "fallback" ELSE "emit"

\* Lines 64-75: one iteration of the attempt loop.
Attempt(outcome) ==
  /\ pc = "attempt"
  /\ LET block == block_of(batch_idx)
         r == translate_batch(block, outcome)
         k == batch_idx + 1
     IN /\ calls' = [calls EXCEPT ![k] = @ + 1]
        /\ last_outcome' = outcome
        /\ IF valid_response(r, block)
             THEN /\ translated_block' = Some(r.val)
                  /\ first_valid' = [first_valid EXCEPT ![k] = Some(r.val)]
                  /\ pc' = "emit"
                  /\ attempt_idx' = attempt_idx
             ELSE /\ translated_block' = None
                  /\ first_valid' = first_valid
                  /\ pc' = after_failure(attempt_idx)
                  /\ attempt_idx' = IF attempt_idx < attempts THEN attempt_idx + 1
                                    ELSE attempt_idx
  /\ UNCHANGED <<texts, chunk_size, max_attempts, fallback_translate, results,
                 batch_idx, fb_calls, fb_got, progress>>
  /\ UNCHANGED cache_vars
  /\ UNCHANGED ext_vars

\* translated_block = [fallback_translate(item) for item in block] inside
\* try/except: fail_at = 0 when the fallback returns for every item, else
\* the 1-based position of the first item on which it raises.
fallback_block(block, fail_at) ==
  IF fail_at = 0 THEN Some(MapSeq(FallbackText, block)) ELSE None

\* Lines 77-84.
Fallback(fail_at) ==
  /\ pc = "fallback"
  /\ LET block == block_of(batch_idx)
         k == batch_idx + 1
     IN /\ fail_at \in 0..Len(block)
        /\ fb_calls' = [fb_calls EXCEPT ![k] = IF fail_at = 0 THEN Len(block) ELSE fail_at]
        /\ fb_got' = [fb_got EXCEPT ![k] =
                        MapSeq(FallbackText,
                               SubSeq(block, 1, IF fail_at = 0 THEN Len(block)
                                                ELSE fail_at - 1))]
        /\ translated_block' = fallback_block(block, fail_at)
  /\ pc' = "emit"
  /\ UNCHANGED <<texts, chunk_size, max_attempts, fallback_translate, results,
                 batch_idx, attempt_idx, calls, first_valid, progress, last_outcome>>
  /\ UNCHANGED cache_vars
  /\ UNCHANGED ext_vars

\* Lines 86-87: if translated_block is None: translated_block = block
emitted_block(tb, block) == IF tb = None THEN block ELSE tb[1]

\* Lines 86-92, and the loop header of the next chunk or the return (94-99).
Emit ==
  /\ pc = "emit"
  /\ LET block == block_of(batch_idx)
     IN results' = slice_assign(results, start_of(batch_idx), end_of(batch_idx),
                                emitted_block(translated_block, block))
  /\ progress' = Append(progress, [chunk |-> batch_idx + 1, of |-> batches,
                                   done |-> end_of(batch_idx), total |-> total])
  /\ IF batch_idx + 1 < batches
       THEN /\ pc' = "attempt"
            /\ batch_idx' = batch_idx + 1
       ELSE /\ pc' = "returned"
            /\ batch_idx' = batch_idx
  /\ attempt_idx' = 1
  /\ translated_block' = None
  /\ last_outcome' = "none"
  /\ UNCHANGED <<texts, chunk_size, max_attempts, fallback_translate,
                 calls, first_valid, fb_calls, fb_got>>
  /\ UNCHANGED cache_vars
  /\ UNCHANGED ext_vars

\* ------------------------------------------- claims on the orchestrator
\* chunk k (1-based) has been written to results
emitted(k) == k <= Len(progress)
\* the attempt loop of chunk k is over
attempted(k) == emitted(k) \/ (k = batch_idx + 1 /\ pc \in {"fallback", "emit"})
chunk_block(k) == block_of(k - 1)
chunk_slice(k) == SubSeq(results, start_of(k - 1) + 1, end_of(k - 1))
Sum(s) == LET RECURSIVE go(_)
              go(i) == IF i = 0 THEN 0 ELSE s[i] + go(i - 1)
          IN go(Len(s))

\* C1: the returned list has exactly len(texts) elements, and its i-th
\* element is the backend's translation of texts[i], the fallback's
\* translation of texts[i], or texts[i] itself; no slot keeps its initial
\* empty value, nothing is dropped or reordered.
C1_AlignedOutput ==
  pc = "returned" =>
    /\ Len(results) = Len(texts)
    /\ \A i \in 1..Len(texts) :
         results[i] \in {BackendText(texts[i]), FallbackText(texts[i]), texts[i]}

\* A finished run over the longest input in which one slot holds a backend
\* translation, one a fallback translation and one the original text, and
\* some chunk needed more than one translate_batch call.
C1_Witness ==
  /\ pc = "returned"
  /\ Len(texts) = MaxTexts
  /\ \E i, j, k \in 1..Len(texts) :
       /\ results[i] = BackendText(texts[i])
       /\ results[j] = FallbackText(texts[j])
       /\ results[k] = texts[k]
  /\ \E c \in 1..Len(calls) : calls[c] > 1

\* C4: what a chunk emits, in order of preference: the list of the first
\* valid batch attempt; else, when every attempt failed and a fallback is
\* supplied (and it returned for every item), the fallback's results; else
\* the chunk's own texts.  The fallback is invoked only after every attempt
\* of the chunk failed, and never for a chunk with a valid attempt.
C4_Preference ==
  /\ \A k \in 1..Len(fb_calls) :
       fb_calls[k] > 0 =>
         first_valid[k] = None /\ fallback_translate /\ calls[k] = attempts
  /\ \A k \in 1..Len(progress) :
       LET blk == chunk_block(k)
           out == chunk_slice(k)
       IN /\ first_valid[k] # None => out = first_valid[k][1] /\ fb_calls[k] = 0
          /\ (first_valid[k] = None /\ fallback_translate) => fb_calls[k] >= 1
          /\ (first_valid[k] = None /\ fallback_translate /\ Len(fb_got[k]) = Len(blk))
               => out = fb_got[k] /\ out = MapSeq(FallbackText, blk)
          /\ (first_valid[k] = None /\ ~fallback_translate)
               => out = blk /\ fb_calls[k] = 0
          /\ out = MapSeq(FallbackText, blk)
               => first_valid[k] = None /\ fallback_translate /\ calls[k] = attempts

\* A finished run in which one chunk was emitted from a valid attempt and
\* another, all of whose attempts failed, from the fallback.
C4_Witness ==
  /\ pc = "returned"
  /\ \E k1, k2 \in 1..Len(progress) :
       /\ first_valid[k1] # None /\ chunk_slice(k1) = first_valid[k1][1]
       /\ first_valid[k2] = None /\ fb_calls[k2] = Len(chunk_block(k2))
       /\ chunk_slice(k2) = MapSeq(FallbackText, chunk_block(k2))

\* C5: per chunk, translate_batch is invoked at least once and at most
\* max_attempts times (max_attempts >= 1; 0 stands for the default
\* MAX_ATTEMPTS and a negative value for 1); the loop stops at the first
\* valid attempt; an exception, a non-list or a list of another length is a
\* failed attempt; the attempt count restarts with every chunk.
C5_Attempts ==
  /\ \A k \in 1..Len(calls) :
       /\ calls[k] <= attempts
       /\ max_attempts >= 1 => calls[k] <= max_attempts
       /\ attempted(k) =>
            /\ calls[k] >= 1
            /\ first_valid[k] = None => calls[k] = attempts
  /\ pc = "attempt" =>
       /\ attempt_idx = calls[batch_idx + 1] + 1
       /\ first_valid[batch_idx + 1] = None
       /\ last_outcome # "ok"
  /\ (pc = "emit" /\ first_valid[batch_idx + 1] # None)
       => last_outcome = "ok" /\ translated_block = first_valid[batch_idx + 1]
  /\ (pc \in {"attempt", "fallback", "emit"} /\ last_outcome \in BatchOutcomes \ {"ok"}
        /\ fb_calls[batch_idx + 1] = 0)
       => translated_block = None /\ first_valid[batch_idx + 1] = None

\* The scenario of the specification: four inputs, chunk size 2, the first
\* call fails and the next two succeed: both chunks hold the backend's
\* results, 2 chunks were processed and 1 call was a retry.
C5_Witness ==
  /\ pc = "returned"
  /\ Len(texts) = 4 /\ chunk_size = 2
  /\ calls = <<2, 1>>
  /\ results = MapSeq(BackendText, texts)
  /\ Len(progress) = 2
  /\ Sum(calls) - Len(progress) = 1

\* C6: when the fallback handles a chunk, every item of the chunk is passed
\* to it and every item on which it returned keeps its fallback translation,
\* whatever it did on the other items.
C6_PerItemFallback ==
  \A k \in 1..Len(progress) :
    fb_calls[k] > 0 =>
      /\ fb_calls[k] = Len(chunk_block(k))
      /\ \A i \in 1..Len(fb_got[k]) : chunk_slice(k)[i] = fb_got[k][i]

NextBatch ==
  \/ \E n \in 0..MaxTexts, cs \in -1..MaxChunkArg,
        ma \in -1..MaxAttemptsArg, fb \in BOOLEAN : Call(BatchTexts(n), cs, ma, fb)
  \/ \E outcome \in BatchOutcomes : Attempt(outcome)
  \/ \E fail_at \in 0..MaxTexts : Fallback(fail_at)
  \/ Emit


\* The texts the cache is called with: the empty text, a plain text, a text
\* that differs from it in case and surrounding whitespace, a quoted text.
CacheTexts == {<<>>, <<"a">>, <<" ", "A">>, <<"'", "b", "'">>}
CacheValues == {<<"a">>, <<"#", "a">>}
Langs == {"es", "en"}

\* the whitespace class; the alphabet holds the space
SpaceChars == {" "}
\* the quote class of the regular expression (double quote, single quote,
\* backtick); the alphabet holds the single quote
QuoteChars == {"'"}
IsSpace(c) == c \in SpaceChars
Lower(c) == IF c = "A" THEN "a" ELSE c

\* the part of s left after dropping the leading / trailing run of characters of cls
LStrip(s, cls) ==
  LET first == IF \E i \in 1..Len(s) : s[i] \notin cls
                 THEN CHOOSE i \in 1..Len(s) :
                        s[i] \notin cls /\ \A j \in 1..(i - 1) : s[j] \in cls
                 ELSE Len(s) + 1
  IN SubSeq(s, first, Len(s))
RStrip(s, cls) ==
  LET lastc == IF \E i \in 1..Len(s) : s[i] \notin cls
                 THEN CHOOSE i \in 1..Len(s) :
                        s[i] \notin cls /\ \A j \in (i + 1)..Len(s) : s[j] \in cls
                 ELSE 0
  IN SubSeq(s, 1, lastc)

\* str(text).strip()
strip(s) == RStrip(LStrip(s, SpaceChars), SpaceChars)
\* re.sub of a leading and of a trailing run of quote characters by nothing
strip_quotes(s) == RStrip(LStrip(s, QuoteChars), QuoteChars)
\* re.sub of every whitespace run by one space
collapse_ws(s) ==
  LET F[i \in 0..Len(s)] ==
        IF i = 0 THEN <<>>
        ELSE IF IsSpace(s[i]) /\ i > 1 /\ IsSpace(s[i - 1]) THEN F[i - 1]
        ELSE Append(F[i - 1], s[i])
  IN F[Len(s)]
lower(s) == [i \in 1..Len(s) |-> Lower(s[i])]

\* _normalize_text, with translator_cache_normalize_lower = lc
normalize_text(text, lc) ==
  IF text = <<>> THEN <<>>
  ELSE LET s == collapse_ws(strip_quotes(strip(text)))
       IN IF lc THEN lower(s) ELSE s

\* make_key with the target language left out of the key
make_key_no_lang(text, lang) == <<"es", normalize_text(text, config.lower)>>

\* _make_key: "{target_lang}::{sha256(norm)}".  SHA-256 is modelled as
\* injective: the digest of a normalized text is the normalized text.
make_key(text, lang) == <<lang, normalize_text(text, config.lower)>>

\* put that keeps the entry of a key the store already holds
put_keep_old(data, key, entry) ==
  [k \in DOMAIN data \cup {key} |-> IF k \in DOMAIN data THEN data[k] ELSE entry]

\* data[key] = entry
put(data, key, entry) == [k \in DOMAIN data \cup {key} |-> IF k = key THEN entry ELSE data[k]]
\* data.pop(key, None)
pop(data, key) == [k \in DOMAIN data \ {key} |-> data[k]]

\* ttl > 0 and (time.time() - ts) > ttl
expired(entry, now) == DEFAULT_TTL > 0 /\ (now - entry.ts) > DEFAULT_TTL

\* What get returns when it returns: None on a miss, Some(value) on a hit.
get_value(data, now, cfg, text, lang) ==
  LET key == <<lang, normalize_text(text, cfg.lower)>>
  IN IF ~cfg.enabled THEN None
     ELSE IF key \notin DOMAIN data THEN None
     ELSE IF expired(data[key], now) THEN None
     ELSE Some(data[key].value)

NoText == <<>>
\* the pair a value is stored under: target language and normalized text
pair_of(text, lang) == <<lang, normalize_text(text, config.lower)>>
\* One call, as recorded in last.  ret: the value returned (None / Some for
\* get); returned: FALSE when the caller is blocked forever; after_set: for a
\* get, Some(value) when the call before it was set(text, lang, value).
CacheCall(op, text, lang, value, ret, returned, after_set) ==
  [op |-> op, text |-> text, lang |-> lang, value |-> value, ret |-> ret,
   returned |-> returned, after_set |-> after_set,
   raised |-> FALSE, calls |-> 0, sel |-> "none", script |-> <<>>,
   cached |-> None, texts |-> <<>>, out |-> <<>>, out_kind |-> "none",
   expired |-> FALSE]

InitCache ==
  /\ store = <<>>
  /\ clock = 0
  /\ file_lock = "free"
  /\ config \in [enabled : BOOLEAN, lower : BOOLEAN]
  /\ last = CacheCall("init", NoText, "es", NoText, None, TRUE, None)
  /\ stored = <<>>

\* _save_cache(data) reached with file_lock free: the store is replaced.
\* With file_lock held the caller blocks in "with file_lock" and the store
\* stays as it is.
saved(data) == IF file_lock = "free" THEN data ELSE store

\* the bound on the number of entries of the store
Fits(text, lang) ==
  make_key(text, lang) \in DOMAIN store \/ Cardinality(DOMAIN store) < MaxEntries

\* set(text, target_lang, value), lines 130-144
Set(text, lang, value) ==
  /\ Fits(text, lang)
  /\ IF ~config.enabled
       THEN /\ store' = store
            /\ stored' = stored
            /\ last' = CacheCall("set", text, lang, value, None, TRUE, None)
       ELSE /\ store' = saved(put(store, make_key(text, lang),
                                  [ts |-> clock, value |-> value]))
            /\ stored' = IF file_lock = "free"
                            THEN put(stored, pair_of(text, lang), value) ELSE stored
            /\ last' = CacheCall("set", text, lang, value, None,
                                 file_lock = "free", None)
  /\ UNCHANGED <<clock, file_lock, config>>
  /\ UNCHANGED batch_vars
  /\ UNCHANGED ext_vars

\* get(text, target_lang), lines 95-127.  On an expired entry get takes
\* file_lock and calls _save_cache, which takes file_lock again: a
\* threading.Lock is not reentrant, so the caller blocks there forever,
\* holding the lock, before anything is written.
Get(text, lang) ==
  LET key == make_key(text, lang)
      follows == IF last.op = "set" /\ last.text = text /\ last.lang = lang
                    /\ last.returned /\ config.enabled
                   THEN Some(last.value) ELSE None
      hits_expired == config.enabled /\ key \in DOMAIN store /\ expired(store[key], clock)
  IN /\ IF hits_expired
          THEN /\ file_lock' = "held"
               /\ last' = [CacheCall("get", text, lang, NoText, None, FALSE, follows)
                             EXCEPT !.expired = TRUE]
          ELSE /\ file_lock' = file_lock
               /\ last' = CacheCall("get", text, lang, NoText,
                                    get_value(store, clock, config, text, lang),
                                    TRUE, follows)
     /\ UNCHANGED <<store, clock, config, stored>>
     /\ UNCHANGED batch_vars
     /\ UNCHANGED ext_vars

\* The maps batch_set is called with, as the sequence of their items: the
\* empty map, one text, two texts that differ in case and whitespace only,
\* two unrelated texts.
BatchMaps ==
  { <<>>,
    <<[text |-> <<"a">>, val |-> <<"#", "a">>]>>,
    <<[text |-> <<" ", "A">>, val |-> <<"a">>], [text |-> <<"a">>, val |-> <<"#", "a">>]>>,
    <<[text |-> <<"a">>, val |-> <<"a">>], [text |-> <<"'", "b", "'">>, val |-> <<"#", "a">>]>> }

\* for text, val in map_items.items(): data[key] = {ts, value}
RECURSIVE put_all(_, _, _, _)
put_all(data, items, lang, now) ==
  IF items = <<>> THEN data
  ELSE put_all(put(data, make_key(items[1].text, lang), [ts |-> now, value |-> items[1].val]),
               Tail(items), lang, now)

\* the history of the same stores
RECURSIVE stored_all(_, _, _)
stored_all(hist, items, lang) ==
  IF items = <<>> THEN hist
  ELSE stored_all(put(hist, pair_of(items[1].text, lang), items[1].val), Tail(items), lang)

\* batch_set(map_items, target_lang), lines 158-171: there is no test of
\* translator_cache_enabled.
BatchSet(items, lang) ==
  /\ Cardinality(DOMAIN put_all(store, items, lang, clock)) <= MaxEntries
  /\ store' = saved(put_all(store, items, lang, clock))
  /\ stored' = IF file_lock = "free" THEN stored_all(stored, items, lang) ELSE stored
  /\ last' = [CacheCall("batch_set", NoText, lang, NoText, None, file_lock = "free", None)
                EXCEPT !.texts = [i \in 1..Len(items) |-> items[i].text],
                       !.out = [i \in 1..Len(items) |-> items[i].val]]
  /\ UNCHANGED <<clock, file_lock, config>>
  /\ UNCHANGED batch_vars
  /\ UNCHANGED ext_vars

\* clear(), lines 196-236: the file is removed under file_lock.
Clear ==
  /\ store' = IF file_lock = "free" THEN <<>> ELSE store
  /\ stored' = IF file_lock = "free" THEN <<>> ELSE stored
  /\ last' = CacheCall("clear", NoText, "es", NoText, None, file_lock = "free", None)
  /\ UNCHANGED <<clock, file_lock, config>>
  /\ UNCHANGED batch_vars
  /\ UNCHANGED ext_vars

\* time passes
Tick ==
  /\ clock < MaxClock
  /\ clock' = clock + 1
  /\ last' = CacheCall("tick", NoText, "es", NoText, None, TRUE, None)
  /\ UNCHANGED <<store, file_lock, config, stored>>
  /\ UNCHANGED batch_vars
  /\ UNCHANGED ext_vars

NextCache ==
  \/ \E text \in CacheTexts, lang \in Langs, value \in CacheValues :
       Set(text, lang, value)
  \/ \E text \in CacheTexts, lang \in Langs : Get(text, lang)
  \/ Clear
  \/ Tick

\* the operations that write and read the store, at one point in time
NextStore ==
  \/ \E text \in CacheTexts, lang \in Langs, value \in CacheValues :
       Set(text, lang, value)
  \/ \E items \in BatchMaps, lang \in Langs : BatchSet(items, lang)
  \/ \E text \in CacheTexts, lang \in Langs : Get(text, lang)
  \/ Clear

\* ------------------------------------------------- _normalize_text, _make_key
\* the alphabet of the texts that are normalized: whitespace, a quote
\* character, a letter in both cases
NormChars == {" ", "'", "a", "A"}
RECURSIVE TextsUpTo(_)
TextsUpTo(n) ==
  IF n = 0 THEN {<<>>}
  ELSE LET shorter == TextsUpTo(n - 1)
       IN shorter \cup {Append(t, c) : t \in {u \in shorter : Len(u) = n - 1}, c \in NormChars}
NormTexts == TextsUpTo(MaxTextLen)

\* A call of _make_key(text, target_lang); last.ret holds the normalized
\* text the digest is taken of.
MakeKey(text, lang) ==
  /\ last' = CacheCall("make_key", text, lang, NoText,
                       Some(normalize_text(text, config.lower)), TRUE, None)
  /\ UNCHANGED <<store, clock, file_lock, config, stored>>
  /\ UNCHANGED batch_vars
  /\ UNCHANGED ext_vars

NextNorm ==
  \/ \E text \in NormTexts, lang \in Langs : MakeKey(text, lang)

\* C11: a text and its normalized form have the same cache key, and so have
\* a text and the text with a leading or trailing space added, with one
\* layer of quote characters around it, with an internal space doubled, or
\* (with case folding) in the other letter case.
C11_Canonical ==
  last.op = "make_key" =>
    LET t == last.text
        l == last.lang
        same(u) == make_key(u, l) = make_key(t, l)
    IN /\ same(last.ret[1])
       /\ same(<<" ">> \o t) /\ same(t \o <<" ">>)
       /\ same(<<"'">> \o t \o <<"'">>)
       /\ \A i \in 1..Len(t) :
            t[i] = " " => same(SubSeq(t, 1, i) \o SubSeq(t, i, Len(t)))
       /\ config.lower => same([i \in 1..Len(t) |-> IF t[i] = "a" THEN "A" ELSE t[i]])

\* ====================================================== translator.py
\* The language the backends translate to (tgt='es').
TargetLang == "es"

\* What get_translator() gives the facade: a working backend object, the
\* no-op translator, or an exception.
Selections == {"backend", "noop", "raise"}
OneOutcomes == {"ok", "raise"}
FailingOutcomes == BatchOutcomes \ {"ok"}
\* What the backend does on its successive translate_batch calls (the last
\* entry repeats): one behaviour for every call, or one failure followed by
\* success.
Scripts == {<<o>> : o \in BatchOutcomes} \cup {<<f, "ok">> : f \in FailingOutcomes}

\* tr.translate(text)
backend_translate(text, sel, outcome) ==
  IF sel = "noop" THEN [kind |-> "val", val |-> text]
  ELSE IF outcome = "ok" THEN [kind |-> "val", val |-> BackendText(text)]
  ELSE [kind |-> "exc", val |-> <<>>]

\* tr.translate_batch(texts)
backend_translate_batch(txs, sel, outcome) ==
  IF sel = "noop" THEN [kind |-> "list", val |-> txs]
  ELSE translate_batch(txs, outcome)

\* translator_translate, lines 1197-1219: the body of the try, then the
\* except clause that returns the text.
translator_translate(text, sel, outcome) ==
  LET body == IF sel = "raise" THEN [kind |-> "exc", val |-> <<>>, calls |-> 0]
              ELSE LET r == backend_translate(text, sel, outcome)
                   IN [kind |-> r.kind, val |-> r.val, calls |-> 1]
  IN IF body.kind = "exc"
       THEN [raised |-> FALSE, ret |-> text, calls |-> body.calls]
       ELSE [raised |-> FALSE, ret |-> body.val, calls |-> body.calls]

\* translator_translate_batch without its except clause
translator_translate_batch_no_except(txs, sel, script) ==
  IF txs = None
    THEN [raised |-> FALSE, out_kind |-> "list", out |-> <<>>, calls |-> 0]
    ELSE LET r == IF sel = "raise" THEN [kind |-> "exc", val |-> <<>>]
                  ELSE backend_translate_batch(txs[1], sel, script[1])
         IN [raised |-> r.kind = "exc", out_kind |-> r.kind, out |-> r.val,
             calls |-> IF sel = "raise" THEN 0 ELSE 1]

\* translator_translate_batch, lines 1222-1253, for texts = Some(list) or None:
\* one translate_batch call whose result is returned as it is; on an
\* exception a copy of the input list.
translator_translate_batch(txs, sel, script) ==
  IF txs = None
    THEN [raised |-> FALSE, out_kind |-> "list", out |-> <<>>, calls |-> 0]
    ELSE LET body == IF sel = "raise" THEN [kind |-> "exc", val |-> <<>>, calls |-> 0]
                     ELSE LET r == backend_translate_batch(txs[1], sel, script[1])
                          IN [kind |-> r.kind, val |-> r.val, calls |-> 1]
         IN IF body.kind = "exc"
              THEN [raised |-> FALSE, out_kind |-> "list", out |-> txs[1],
                    calls |-> body.calls]
              ELSE [raised |-> FALSE, out_kind |-> body.kind, out |-> body.val,
                    calls |-> body.calls]

\* A call of translator_translate.  last.cached: what the persistent cache
\* holds for the text when the call is made.
TranslateOne(text, sel, outcome) ==
  /\ LET r == translator_translate(text, sel, outcome)
     IN last' = [CacheCall("translate", text, TargetLang, NoText, Some(r.ret), TRUE, None)
                   EXCEPT !.raised = r.raised, !.calls = r.calls, !.sel = sel,
                          !.script = <<outcome>>,
                          !.cached = get_value(store, clock, config, text, TargetLang)]
  /\ UNCHANGED <<store, clock, file_lock, config, stored>>
  /\ UNCHANGED batch_vars
  /\ UNCHANGED ext_vars

\* A call of translator_translate_batch with a list.
TranslateMany(txs, sel, script) ==
  /\ LET r == translator_translate_batch(Some(txs), sel, script)
     IN last' = [CacheCall("translate_batch", NoText, TargetLang, NoText, None, TRUE, None)
                   EXCEPT !.raised = r.raised, !.calls = r.calls, !.sel = sel,
                          !.script = script, !.texts = txs,
                          !.out = r.out, !.out_kind = r.out_kind]
  /\ UNCHANGED <<store, clock, file_lock, config, stored>>
  /\ UNCHANGED batch_vars
  /\ UNCHANGED ext_vars

\* A call of translator_translate_batch with None: it returns before the
\* backend is selected.
TranslateManyNone ==
  /\ LET r == translator_translate_batch(None, "backend", <<"ok">>)
     IN last' = [CacheCall("translate_batch_none", NoText, TargetLang, NoText, None, TRUE, None)
                   EXCEPT !.raised = r.raised, !.calls = r.calls,
                          !.out = r.out, !.out_kind = r.out_kind]
  /\ UNCHANGED <<store, clock, file_lock, config, stored>>
  /\ UNCHANGED batch_vars
  /\ UNCHANGED ext_vars

\* The facade, called on a persistent cache that holds at most one entry,
\* written by set.
Next ==
  \/ \E text \in CacheTexts, value \in CacheValues :
       store = <<>> /\ Set(text, TargetLang, value)
  \/ \E text \in CacheTexts \ {<<>>}, sel \in Selections, outcome \in OneOutcomes :
       TranslateOne(text, sel, outcome)
  \/ \E n \in 0..MaxMany, sel \in Selections, script \in Scripts :
       TranslateMany(BatchTexts(n), sel, script)
  \/ TranslateManyNone

\* --------------------------------- claims on the facade and the cache
IsFacadeCall == last.op \in {"translate", "translate_batch", "translate_batch_none"}
BackendAlwaysRaises == last.sel = "raise" \/ (last.sel = "backend" /\ last.script = <<"raise">>)

\* C2: translator_translate_batch called with a list returns a list with one
\* element per input, in input order, whatever the backend does (it raises,
\* or returns a list of another length, or no list).
C2_OnePerInput ==
  last.op = "translate_batch" =>
    /\ last.out_kind = "list"
    /\ Len(last.out) = Len(last.texts)
    /\ \A i \in 1..Len(last.texts) :
         last.out[i] \in {last.texts[i], BackendText(last.texts[i])}

\* C3: translator_translate and translator_translate_batch never raise to
\* the caller; when the selector or every backend call raises, what they
\* return is the input text, or the input list, unchanged.
C3_NeverRaises ==
  /\ IsFacadeCall => ~last.raised /\ last.returned
  /\ (last.op = "translate" /\ BackendAlwaysRaises) => last.ret = Some(last.text)
  /\ (last.op = "translate_batch" /\ BackendAlwaysRaises)
       => last.out_kind = "list" /\ last.out = last.texts

\* translator_translate_batch on three texts with a backend whose
\* translate_batch raises: the three texts come back.
C3_Witness ==
  /\ last.op = "translate_batch"
  /\ last.sel = "backend" /\ last.script = <<"raise">>
  /\ Len(last.texts) = 3
  /\ last.out = last.texts
  /\ ~last.raised

\* C7: translator_translate looks the text up in the persistent cache: on a
\* hit whose value differs from the text it returns the cached value and
\* invokes no backend; on a hit whose value is the text it translates again.
C7_CacheFirst ==
  last.op = "translate" =>
    /\ (last.cached # None /\ last.cached[1] # last.text)
         => last.ret = last.cached /\ last.calls = 0
    /\ (last.cached # None /\ last.cached[1] = last.text /\ last.sel # "raise")
         => last.calls >= 1

\* C8: a translation the facade obtained from a backend for a text that
\* missed the persistent cache is in the cache when the call has returned:
\* get for that text and the target language returns it.
C8_WriteThrough ==
  /\ (last.op = "translate" /\ last.sel = "backend" /\ last.script = <<"ok">>
        /\ last.cached = None /\ config.enabled)
       => get_value(store, clock, config, last.text, TargetLang) = last.ret
  /\ (last.op = "translate_batch" /\ last.sel = "backend" /\ last.script = <<"ok">>
        /\ config.enabled)
       => \A i \in 1..Len(last.texts) :
            get_value(store, clock, config, last.texts[i], TargetLang) = Some(last.out[i])

\* C9: translator_translate_batch runs the texts through the orchestrator, so
\* a backend whose first translate_batch call fails and whose next call
\* succeeds yields the translations.
C9_Retried ==
  (last.op = "translate_batch" /\ last.sel = "backend" /\ Len(last.script) = 2
     /\ last.texts # <<>>)
    => /\ last.out_kind = "list"
       /\ last.out = MapSeq(BackendText, last.texts)
       /\ last.calls = 2

\* C10: with the cache enabled, a get that directly follows
\* set(text, lang, value), for the same text and language, returns value.
C10_SetThenGet ==
  (last.op = "get" /\ last.after_set # None)
    => last.returned /\ last.ret = last.after_set

\* A get right after a set that overwrote the entry of its key, in a store
\* that holds other entries too, for a text that is not in normal form.
C10_Witness ==
  /\ last.op = "get"
  /\ last.text = <<" ", "A">>
  /\ last.after_set = Some(<<"#", "a">>)
  /\ last.ret = Some(<<"#", "a">>)
  /\ Cardinality(DOMAIN store) = MaxEntries

\* the pairs the latest set or batch_set stored under
written_pairs(call) ==
  IF call.op = "set" THEN {<<call.lang, normalize_text(call.text, config.lower)>>}
  ELSE {<<call.lang, normalize_text(call.texts[i], config.lower)>> : i \in 1..Len(call.texts)}

\* C12: a get that returns a value returns the value stored last (by set or
\* batch_set, and not cleared since) under the same target language and the
\* same normalized text; a set or batch_set leaves what get returns for
\* every other (language, normalized text) pair as it was.
C12_NoCrossTalk ==
  /\ [](last.op = "get" /\ last.ret # None =>
          LET pr == <<last.lang, normalize_text(last.text, config.lower)>>
          IN pr \in DOMAIN stored /\ last.ret = Some(stored[pr]))
  /\ [][last'.op \in {"set", "batch_set"} =>
          \A t \in CacheTexts, l \in Langs :
            <<l, normalize_text(t, config.lower)>> \notin written_pairs(last')
              => get_value(store', clock', config', t, l) = get_value(store, clock, config, t, l)]_vars

\* A get returns a value stored by batch_set under a text that differs from
\* the queried one in case and whitespace, while the store also holds an
\* entry of the same normalized text under the other language and with
\* another value.
C12_Witness ==
  /\ last.op = "get" /\ last.text = <<"a">> /\ last.lang = "es"
  /\ last.ret = Some(<<"a">>)
  /\ <<"en", <<"a">>>> \in DOMAIN stored /\ stored[<<"en", <<"a">>>>] = <<"#", "a">>
  /\ Cardinality(DOMAIN store) = MaxEntries

\* C13: a get on an entry older than the TTL returns to its caller, returns
\* a miss, and the entry is gone from the store when it has returned.
C13_Expiry ==
  (last.op = "get" /\ last.expired)
    => /\ last.returned
       /\ last.ret = None
       /\ make_key(last.text, last.lang) \notin DOMAIN store

\* =========================== translation_cache.py, write by write
\* What translation_cache.json can be: no file, a file that cannot be
\* opened, text that is no JSON, JSON that is no mapping and is falsy
\* ([], 0, null) or truthy ([1], "x", 5), a file that open(path, "w") has
\* truncated and json.dump has not finished, a mapping.
CorruptKinds == {"missing", "unreadable", "invalid", "falsy", "nonmapping"}
FileKinds == CorruptKinds \cup {"partial", "mapping"}
File(kind, data) == [kind |-> kind, data |-> data]

\* _load_cache(), lines 33-41: json.load(f) or {}, and {} on any exception.
\* is_dict is FALSE when the loaded value is no mapping.
load_cache(pf) ==
  CASE pf.kind = "mapping"    -> [is_dict |-> TRUE, data |-> pf.data]
    [] pf.kind = "nonmapping" -> [is_dict |-> FALSE, data |-> <<>>]
    [] OTHER                  -> [is_dict |-> TRUE, data |-> <<>>]

\* get(text, target_lang) on the file, lines 95-127: data.get on a value
\* that is no mapping raises inside the try, and get returns None.
file_get(pf, text, lang) ==
  LET loaded == load_cache(pf)
  IN IF ~config.enabled \/ ~loaded.is_dict THEN None
     ELSE get_value(loaded.data, clock, config, text, lang)

Idle == [pc |-> "idle", data |-> <<>>, prev |-> <<>>, op |-> "none", texts |-> <<>>,
         vals |-> <<>>, failed |-> FALSE, start |-> "mapping"]

FileCall(op, txs, vals) ==
  [op |-> op, texts |-> txs, vals |-> vals, out |-> <<>>, raised |-> FALSE,
   failed |-> FALSE, start |-> "mapping", during |-> FALSE,
   seen |-> <<>>, prev |-> <<>>, new |-> <<>>]

InitFile ==
  /\ path_file \in {File(k, <<>>) : k \in CorruptKinds}
  /\ tmp_file = "none"
  /\ w = Idle
  /\ f_last = FileCall("init", <<>>, <<>>)

\* the call returns to its caller
returns_to_caller(failed) ==
  [FileCall(w.op, w.texts, w.vals) EXCEPT !.failed = failed, !.start = w.start]

\* set / batch_set up to the call of _save_cache (lines 131-137, 159-164):
\* items holds the one item of set or the items of batch_set.  Storing into
\* a loaded value that is no mapping raises, and the except clause passes.
FileWrite(op, items) ==
  /\ w.pc = "idle"
  /\ config.enabled \/ op = "batch_set"
  /\ LET loaded == load_cache(path_file)
         data == put_all(loaded.data, items, TargetLang, clock)
         txs == [i \in 1..Len(items) |-> items[i].text]
         vals == [i \in 1..Len(items) |-> items[i].val]
     IN /\ Cardinality(DOMAIN data) <= MaxEntries
        /\ IF loaded.is_dict
             THEN /\ w' = [pc |-> "tmp_write", data |-> data, prev |-> loaded.data,
                           op |-> op, texts |-> txs, vals |-> vals,
                           failed |-> FALSE, start |-> path_file.kind]
                  /\ f_last' = f_last
             ELSE /\ w' = Idle
                  /\ f_last' = [FileCall(op, txs, vals) EXCEPT !.start = path_file.kind]
  /\ UNCHANGED <<path_file, tmp_file>>
  /\ UNCHANGED not_file

\* _save_cache, lines 48-50: open(tmp, "w") and json.dump
TmpWrite(ok) ==
  /\ w.pc = "tmp_write"
  /\ tmp_file' = IF ok THEN "complete" ELSE "partial"
  /\ w' = [w EXCEPT !.pc = IF ok THEN "replace" ELSE "direct_open",
                    !.failed = @ \/ ~ok]
  /\ UNCHANGED <<path_file, f_last>>
  /\ UNCHANGED not_file

\* _save_cache, line 51: os.replace(tmp, path)
Replace(ok) ==
  /\ w.pc = "replace"
  /\ IF ok
       THEN /\ path_file' = File("mapping", w.data)
            /\ tmp_file' = "none"
            /\ w' = Idle
            /\ f_last' = returns_to_caller(w.failed)
       ELSE /\ w' = [w EXCEPT !.pc = "direct_open", !.failed = TRUE]
            /\ UNCHANGED <<path_file, tmp_file, f_last>>
  /\ UNCHANGED not_file

\* _save_cache, line 54: the except clause opens the file itself for
\* writing, which truncates it
DirectOpen(ok) ==
  /\ w.pc = "direct_open"
  /\ IF ok
       THEN /\ path_file' = File("partial", <<>>)
            /\ w' = [w EXCEPT !.pc = "direct_write"]
            /\ f_last' = f_last
       ELSE /\ path_file' = path_file
            /\ w' = Idle
            /\ f_last' = returns_to_caller(TRUE)
  /\ UNCHANGED tmp_file
  /\ UNCHANGED not_file

\* _save_cache, lines 55-57: json.dump into the truncated file
DirectWrite(ok) ==
  /\ w.pc = "direct_write"
  /\ path_file' = IF ok THEN File("mapping", w.data) ELSE path_file
  /\ w' = Idle
  /\ f_last' = returns_to_caller(TRUE)
  /\ UNCHANGED tmp_file
  /\ UNCHANGED not_file

\* batch_get(texts, target_lang), lines 147-155, by any thread: one get per
\* text; get takes no lock to load the file.  seen is what _load_cache gave.
FileBatchGet(txs) ==
  /\ f_last' = [FileCall("batch_get", txs, <<>>)
                  EXCEPT !.out = [i \in 1..Len(txs) |-> file_get(path_file, txs[i], TargetLang)],
                         !.start = path_file.kind,
                         !.during = w.pc # "idle",
                         !.seen = load_cache(path_file).data,
                         !.prev = w.prev, !.new = w.data]
  /\ UNCHANGED <<path_file, tmp_file, w>>
  /\ UNCHANGED not_file

NextFile ==
  \/ \E text \in CacheTexts, value \in CacheValues :
       FileWrite("set", <<[text |-> text, val |-> value]>>)
  \/ \E items \in BatchMaps : FileWrite("batch_set", items)
  \/ \E ok \in BOOLEAN : TmpWrite(ok)
  \/ \E ok \in BOOLEAN : Replace(ok)
  \/ \E ok \in BOOLEAN : DirectOpen(ok)
  \/ \E ok \in BOOLEAN : DirectWrite(ok)
  \/ \E txs \in {<<t>> : t \in CacheTexts} \cup {<<<<"a">>, <<"'", "b", "'">>>>} :
       FileBatchGet(txs)

\* C14: while a set or batch_set is under way, whatever step of it failed,
\* a reader that loads the store gets the complete content from before the
\* write or the complete content being written.
C14_AtomicWrites ==
  (f_last.op = "batch_get" /\ f_last.during) => f_last.seen \in {f_last.prev, f_last.new}

\* C15: on a store that is missing, unreadable, no JSON, or JSON that is no
\* mapping, get and batch_get report a miss for every text and do not
\* raise; and when the next set (none of whose writes failed) has returned,
\* the entry it set is read back.
C15_CorruptStore ==
  /\ (f_last.op = "batch_get" /\ f_last.start \in CorruptKinds)
       => ~f_last.raised /\ \A i \in 1..Len(f_last.out) : f_last.out[i] = None
  /\ (f_last.op = "set" /\ f_last.start \in CorruptKinds /\ ~f_last.failed /\ w.pc = "idle")
       => file_get(path_file, f_last.texts[1], TargetLang) = Some(f_last.vals[1])

\* ============================= translator.py, the part caches (LRU)
PartBackends == {"local", "m2m", "aventiq"}
\* one key more than the largest capacity
PartKeys == {Letters[i] : i \in 1..(MaxCapacity + 1)}
PartValues == {"x", "y"}

keys_of(cache) == {cache[i].key : i \in 1..Len(cache)}
index_of(cache, key) == CHOOSE i \in 1..Len(cache) : cache[i].key = key
without(cache, key) == SelectSeq(cache, LAMBDA it : it.key # key)
\* OrderedDict.move_to_end(key)
move_to_end(cache, key) == Append(without(cache, key), cache[index_of(cache, key)])
\* cache[key] = value: in place for a key the dict holds, at the end otherwise
assign(cache, key, value) ==
  IF key \in keys_of(cache)
    THEN [cache EXCEPT ![index_of(cache, key)].value = value]
    ELSE Append(cache, [key |-> key, value |-> value])
\* OrderedDict.popitem(last=False)
popitem_first(cache) == Tail(cache)

\* the test that triggers the eviction, one entry too late
over_capacity_late(cache, size) == Len(cache) > size + 1

\* len(cache) > cache_size
over_capacity(cache, size) == Len(cache) > size

\* The lookup.  LocalTranslator.translate_batch, lines 392-393: membership
\* test and read, the order is left as it is.  M2MTranslator._cache_get
\* (617-626) and AventIQTranslator._cache_get (1013-1021): move_to_end on
\* a hit.
cache_get(b, cache, key) ==
  IF key \notin keys_of(cache) THEN [cache |-> cache, hit |-> FALSE]
  ELSE IF b = "local" THEN [cache |-> cache, hit |-> TRUE]
  ELSE [cache |-> move_to_end(cache, key), hit |-> TRUE]

\* The insertion.  LocalTranslator.translate_batch.cache_set (374-383) and
\* M2MTranslator._cache_set (628-649): a held key is moved to the end and
\* assigned, a new key is assigned and the overflow test follows;
\* AventIQTranslator._cache_set (1023-1033): the overflow test follows in
\* both cases.
cache_set(b, cache, size, key, value) ==
  IF key \in keys_of(cache)
    THEN LET c == assign(move_to_end(cache, key), key, value)
         IN IF b = "aventiq" /\ over_capacity(c, size) THEN popitem_first(c) ELSE c
    ELSE LET c == assign(cache, key, value)
         IN IF over_capacity(c, size) THEN popitem_first(c) ELSE c

\* the history of uses: key becomes the most recently used one
touch(hist, key) == Append(SelectSeq(hist, LAMBDA k : k # key), key)

LruCall(op, key) ==
  [op |-> op, key |-> key, hit |-> FALSE, overflow |-> FALSE, evicted |-> {},
   lru |-> "none", before |-> 0]

InitLRU ==
  /\ lru_backend \in PartBackends
  /\ cache_size \in 1..MaxCapacity
  /\ part_cache = <<>>
  /\ used = <<>>
  /\ lru_last = LruCall("init", "none")

\* a lookup of key
CacheGet(key) ==
  /\ LET r == cache_get(lru_backend, part_cache, key)
     IN /\ part_cache' = r.cache
        /\ used' = IF r.hit THEN touch(used, key) ELSE used
        /\ lru_last' = [LruCall("get", key) EXCEPT !.hit = r.hit, !.before = Len(part_cache)]
  /\ UNCHANGED <<lru_backend, cache_size>>
  /\ UNCHANGED not_lru

\* an insertion of key
CacheSet(key, value) ==
  /\ LET c == cache_set(lru_backend, part_cache, cache_size, key, value)
         gone == keys_of(part_cache) \ keys_of(c)
     IN /\ part_cache' = c
        /\ used' = SelectSeq(touch(used, key), LAMBDA k : k \in keys_of(c))
        /\ lru_last' = [LruCall("set", key)
                          EXCEPT !.overflow = key \notin keys_of(part_cache)
                                                /\ Len(part_cache) = cache_size,
                                 !.evicted = gone,
                                 !.lru = IF used = <<>> THEN "none" ELSE used[1],
                                 !.before = Len(part_cache)]
  /\ UNCHANGED <<lru_backend, cache_size>>
  /\ UNCHANGED not_lru

NextLRU ==
  \/ \E key \in PartKeys : CacheGet(key)
  \/ \E key \in PartKeys, value \in PartValues : CacheSet(key, value)

\* C16: in each backend's part cache the number of entries never exceeds
\* the capacity (cache_size >= 1).
C16_Capacity ==
  Len(part_cache) <= cache_size /\ Cardinality(keys_of(part_cache)) = Len(part_cache)

\* A full cache of the largest capacity right after an insertion that
\* overflowed it and evicted an entry.
C16_Witness ==
  /\ cache_size = MaxCapacity /\ Len(part_cache) = MaxCapacity
  /\ lru_last.op = "set" /\ lru_last.overflow /\ lru_last.evicted # {}
  /\ lru_last.before = MaxCapacity

\* C17: an insertion of a new key into a full cache evicts exactly one
\* entry, the least recently used one, insertions and lookup hits both
\* counting as use.
C17_TrueLRU ==
  (lru_last.op = "set" /\ lru_last.overflow) => lru_last.evicted = {lru_last.lru}

\* ================================ translator.py, the backends' translate
\* the alphabet of the texts: whitespace, a letter, a sentence end
TrChars == {" ", "a", "."}
SentenceEnds == {"."}
RECURSIVE TrTextsUpTo(_)
TrTextsUpTo(n) ==
  IF n = 0 THEN {<<>>}
  ELSE LET shorter == TrTextsUpTo(n - 1)
       IN shorter \cup {Append(t, c) : t \in {u \in shorter : Len(u) = n - 1}, c \in TrChars}
TrTexts == TrTextsUpTo(MaxTextLen)

\* " ".join(parts)
RECURSIVE join_space(_)
join_space(parts) ==
  IF parts = <<>> THEN <<>>
  ELSE IF Len(parts) = 1 THEN parts[1]
  ELSE parts[1] \o <<" ">> \o join_space(Tail(parts))

RECURSIVE flatten(_)
flatten(lists) == IF lists = <<>> THEN <<>> ELSE lists[1] \o flatten(Tail(lists))

\* core.utils.dividir_texto(texto, max_chars), lines 17-33
RECURSIVE dividir_texto(_, _)
dividir_texto(texto, max_chars) ==
  IF texto = <<>> THEN <<>>
  ELSE IF Len(texto) <= max_chars THEN <<texto>>
  ELSE LET spaces == {i \in 1..max_chars : texto[i] = " "}
           \* corte = texto.rfind(" ", 0, max_chars), or max_chars (0-based)
           corte == IF spaces = {} THEN max_chars
                    ELSE (CHOOSE i \in spaces : \A j \in spaces : j <= i) - 1
       IN <<SubSeq(texto, 1, corte)>>
            \o dividir_texto(LStrip(SubSeq(texto, corte + 1, Len(texto)), SpaceChars),
                              max_chars)

\* core.utils.limpiar_traduccion, lines 36-67, on texts that hold none of
\* the attribution phrases it removes: strip(), then strip of quotes
limpiar_traduccion(t) == RStrip(LStrip(strip(t), QuoteChars), QuoteChars)

\* the number of tokens of a text: one per character that is no whitespace
ntok(t) == Len(SelectSeq(t, LAMBDA c : c \notin SpaceChars))

\* re.split of the text at every whitespace run that follows a sentence end
RECURSIVE split_sentences(_)
split_sentences(t) ==
  LET cuts == {i \in 2..Len(t) : t[i] \in SpaceChars /\ t[i - 1] \in SentenceEnds}
  IN IF cuts = {} THEN <<t>>
     ELSE LET i == CHOOSE c \in cuts : \A d \in cuts : c <= d
          IN <<SubSeq(t, 1, i - 1)>>
               \o split_sentences(LStrip(SubSeq(t, i, Len(t)), SpaceChars))

\* s[i:i+approx] for i in range(0, len(s), approx)
RECURSIVE char_slices(_, _)
char_slices(sent, approx) ==
  IF sent = <<>> THEN <<>>
  ELSE <<SubSeq(sent, 1, Min(approx, Len(sent)))>>
         \o char_slices(SubSeq(sent, Min(approx, Len(sent)) + 1, Len(sent)), approx)

\* the loop with the sentences appended whole, never sliced
RECURSIVE pack_whole_sentences(_, _, _, _)
pack_whole_sentences(sents, st, tok_raises, max_tokens) ==
  IF sents = <<>> THEN st
  ELSE pack_whole_sentences(Tail(sents),
                            [st EXCEPT !.chunks =
                               IF sents[1] = <<>> THEN @ ELSE Append(@, sents[1])],
                            tok_raises, max_tokens)

\* the loop over the sentences, lines 181-207; st = [chunks, current]
RECURSIVE pack_sentences(_, _, _, _)
pack_sentences(sents, st, tok_raises, max_tokens) ==
  IF sents = <<>> THEN st
  ELSE LET sent == sents[1]
           candidate == IF st.current # <<>> THEN strip(st.current \o <<" ">> \o sent)
                        ELSE sent
           \* tokenizer_obj(candidate, truncation=True, max_length=max_tokens)
           seq_len == Min(ntok(candidate), max_tokens)
           flushed == IF st.current # <<>> THEN Append(st.chunks, st.current) ELSE st.chunks
           approx == Max(max_tokens * 2, MIN_SLICE)
           coarse == [chunks |-> flushed \o char_slices(sent, approx), current |-> <<>>]
           next == IF sent = <<>> THEN st
                   ELSE IF tok_raises THEN coarse
                   ELSE IF seq_len <= max_tokens THEN [st EXCEPT !.current = candidate]
                   ELSE coarse
       IN pack_sentences(Tail(sents), next, tok_raises, max_tokens)

\* _split_text_by_token_limit(text, tokenizer_obj, max_tokens), lines 155-216;
\* tok_raises: the tokenizer raises on every call
split_text_by_token_limit(text, tok_raises, max_tokens) ==
  IF text = <<>> THEN <<<<>>>>
  ELSE LET t == strip(text)
           st == pack_sentences(split_sentences(t), [chunks |-> <<>>, current |-> <<>>],
                                tok_raises, max_tokens)
           chunks == IF st.current # <<>> THEN Append(st.chunks, st.current) ELSE st.chunks
       IN IF ~tok_raises /\ ntok(t) <= max_tokens THEN <<t>>
          ELSE IF chunks = <<>> THEN <<t>>
          ELSE MapSeq(strip, SelectSeq(chunks, LAMBDA c : c # <<>> /\ strip(c) # <<>>))

\* The environment of a call.  loaded: the engine can be loaded (for DeepL
\* and Argos: is set up); gen: what the engine does when it is asked to
\* translate; tok_raises, max_tokens: the tokenizer; cached: the part cache
\* holds every part that is looked up.
TrEnvs ==
  [loaded : BOOLEAN, gen : {"ok", "raise"}, tok_raises : BOOLEAN,
   max_tokens : 1..MaxTokens, cached : BOOLEAN]

Returned(t) == [raised |-> FALSE, ret |-> t]
\* a step of the translation of a chunk raises: the tokenizer call or generate
step_fails(e) == e.tok_raises \/ e.gen = "raise"
\* what the engine makes of one chunk, cleaned
engine(c) == limpiar_traduccion(BackendText(c))

\* LocalTranslator.translate, lines 254-316: a chunk whose generation fails
\* is replaced by the chunk itself
local_translate(text, e) ==
  IF text = <<>> \/ strip(text) = <<>> THEN Returned(<<>>)
  ELSE IF ~e.loaded THEN Returned(text)
  ELSE LET partes == dividir_texto(text, MAX_CHARS)
           chunks == flatten([i \in 1..Len(partes) |->
                       split_text_by_token_limit(partes[i], e.tok_raises, e.max_tokens)])
           one(c) == IF step_fails(e) THEN c ELSE engine(c)
       IN Returned(join_space([i \in 1..Len(chunks) |-> one(chunks[i])]))

\* what M2MTranslator.translate and AventIQTranslator.translate make of one
\* part (lines 685-747, 1058-1092): the cached value, or the joined
\* translations of its chunks, or the part itself when a step raised
translate_part(parte, e) ==
  IF e.cached THEN engine(parte)
  ELSE IF step_fails(e) THEN parte
  ELSE LET chunks == split_text_by_token_limit(parte, e.tok_raises, e.max_tokens)
       IN join_space([i \in 1..Len(chunks) |-> engine(chunks[i])])

\* M2MTranslator.translate, lines 651-749
m2m_translate(text, e) ==
  IF text = <<>> \/ strip(text) = <<>> THEN Returned(<<>>)
  ELSE IF ~e.loaded THEN Returned(text)
  ELSE LET partes == dividir_texto(text, MAX_CHARS)
       IN Returned(join_space([i \in 1..Len(partes) |-> translate_part(partes[i], e)]))

\* AventIQTranslator.translate, lines 1043-1093: the parts are those of the
\* stripped text
aventiq_translate(text, e) ==
  IF strip(text) = <<>> THEN Returned(<<>>)
  ELSE IF ~e.loaded THEN Returned(text)
  ELSE LET partes == dividir_texto(strip(text), MAX_CHARS)
       IN Returned(join_space([i \in 1..Len(partes) |-> translate_part(partes[i], e)]))

\* DeepLTranslator.translate, lines 494-509
deepl_translate(text, e) ==
  IF text = <<>> \/ strip(text) = <<>> THEN Returned(<<>>)
  ELSE IF ~e.loaded \/ e.gen = "raise" THEN Returned(text)
  ELSE Returned(engine(text))

\* ArgosTranslator.translate, argos.py lines 91-118
argos_translate(text, e) ==
  IF text = <<>> THEN Returned(<<>>)
  ELSE IF ~e.loaded \/ e.gen = "raise" THEN Returned(text)
  ELSE Returned(BackendText(text))

\* NoOpTranslator.translate, lines 1189-1190
noop_translate(text, e) == Returned(text)

TrBackends == {"local", "m2m100", "aventiq", "deepl", "argos", "noop"}

translate_of(b, text, e) ==
  CASE b = "local"   -> local_translate(text, e)
    [] b = "m2m100"  -> m2m_translate(text, e)
    [] b = "aventiq" -> aventiq_translate(text, e)
    [] b = "deepl"   -> deepl_translate(text, e)
    [] b = "argos"   -> argos_translate(text, e)
    [] b = "noop"    -> noop_translate(text, e)

\* a call: pc is "called" until translate has returned or raised
TrCall(b, text, e) ==
  [pc |-> "called", backend |-> b, text |-> text, env |-> e, raised |-> FALSE, ret |-> <<>>]

\* translate(text) has been called on some backend, in some environment
InitTr ==
  tr_last \in {TrCall(b, text, e) : b \in TrBackends, text \in TrTexts, e \in TrEnvs}

\* the call runs to its end
BackendTranslate ==
  /\ tr_last.pc = "called"
  /\ LET r == translate_of(tr_last.backend, tr_last.text, tr_last.env)
     IN tr_last' = [tr_last EXCEPT !.pc = "returned", !.raised = r.raised, !.ret = r.ret]
  /\ UNCHANGED not_tr

NextTr ==
  \/ BackendTranslate

\* the engine of backend b is unavailable, or its translation step fails:
\* the tokenizer is a step of the model backends only (and a part found in
\* the part cache of M2M100 or AventIQ takes no step), the remote and the
\* Argos call have the one step, and the no-op backend has none
call_fails(b, e) ==
  CASE b = "local" -> ~e.loaded \/ step_fails(e)
    [] b \in {"m2m100", "aventiq"} -> ~e.loaded \/ (~e.cached /\ step_fails(e))
    [] b \in {"deepl", "argos"} -> ~e.loaded \/ e.gen = "raise"
    [] OTHER -> FALSE

\* C18: translate of every backend never raises, and for a text that is
\* not blank it returns the text unchanged when the engine is unavailable
\* or the translation step fails.
C18_TranslateNeverRaises ==
  tr_last.pc = "returned" =>
    /\ ~tr_last.raised
    /\ (strip(tr_last.text) # <<>> /\ call_fails(tr_last.backend, tr_last.env))
         => tr_last.ret = tr_last.text

\* ------------------------------------------------------------ get_translator
MaxAnnouncements == 2

\* translator_backend as configured: the names the selector knows, the
\* name of a backend it has no branch for, and an unknown name
SelBackends == {"auto", "deepl", "m2m100", "m2m", "aventiq", "local", "marian", "argos", "other"}

\* deepl_api_key: the key is configured; deepl_works: the remote service
\* answers; m2m, aventiq, local: ensure_loaded of the model succeeds
SelEnvs ==
  [deepl_api_key : BOOLEAN, deepl_works : BOOLEAN,
   m2m : BOOLEAN, aventiq : BOOLEAN, local : BOOLEAN]

\* lines 1114-1129: the strategies to try
order_fall_through(backend, env) ==
  (IF backend = "auto" THEN <<>> ELSE <<backend>>)
    \o (IF env.deepl_api_key THEN <<"deepl">> ELSE <<>>)
    \o <<"m2m100", "aventiq", "local">>
order_of(backend, env) ==
  IF backend = "auto"
    THEN (IF env.deepl_api_key THEN <<"deepl">> ELSE <<>>)
           \o <<"m2m100", "aventiq", "local">>
    ELSE <<backend>>

\* the text of the smoke test, 'Hola'
SmokeText == <<"a">>

\* lines 1139-1142: the smoke test fails when translate raises
smoke_test_raises(env) ==
  deepl_translate(SmokeText,
                  [loaded |-> env.deepl_works, gen |-> "ok", tok_raises |-> FALSE,
                   max_tokens |-> 1, cached |-> FALSE]).raised

\* lines 1133-1185, one turn of the loop: the backend returned, or "continue"
try_strategy(strat, env) ==
  CASE strat = "deepl" ->
         IF env.deepl_api_key /\ ~smoke_test_raises(env) THEN "deepl" ELSE "continue"
    [] strat \in {"m2m100", "m2m"} -> IF env.m2m THEN "m2m100" ELSE "continue"
    [] strat = "aventiq" -> IF env.aventiq THEN "aventiq" ELSE "continue"
    [] strat \in {"local", "marian"} -> IF env.local THEN "local" ELSE "continue"
    [] OTHER -> "continue"

\* lines 1132-1194: the first strategy that returns, or the no-op backend
RECURSIVE first_ready(_, _)
first_ready(order, env) ==
  IF order = <<>> THEN "noop"
  ELSE LET r == try_strategy(order[1], env)
       IN IF r # "continue" THEN r ELSE first_ready(Tail(order), env)

get_translator(backend, env) == first_ready(order_of(backend, env), env)

\* the name each branch announces
announced_name(cls) ==
  CASE cls = "deepl" -> "DeepL API"
    [] cls = "m2m100" -> "M2M100 (local)"
    [] cls = "aventiq" -> "AventIQ (local)"
    [] cls = "local" -> "Marian local"
    [] OTHER -> "NoOp translator (sin backend disponible)"

\* _last_announced_backend before any announcement: None, as a name
NoName == "None"

\* the announcement kept from the first selection on
announce_once(prev, name) == IF prev = NoName THEN name ELSE prev
\* _announce_translator_backend, lines 75-87: the value of
\* _last_announced_backend after the call
announce(prev, name) == IF prev = name THEN prev ELSE name

SelCall(backend, env, ret) == [backend |-> backend, env |-> env, ret |-> ret]

InitSel ==
  /\ last_announced = NoName
  /\ announcements = 0
  /\ sel_last = SelCall("none",
                        [deepl_api_key |-> FALSE, deepl_works |-> FALSE,
                         m2m |-> FALSE, aventiq |-> FALSE, local |-> FALSE],
                        "none")

\* a call of get_translator() with translator_backend = backend; the
\* backend it returns is announced when the name differs from the last one
GetTranslator(backend, env) ==
  LET ret == get_translator(backend, env)
      name == announced_name(ret)
  IN /\ announcements < MaxAnnouncements \/ last_announced = name
     /\ sel_last' = SelCall(backend, env, ret)
     /\ last_announced' = announce(last_announced, name)
     /\ announcements' = IF last_announced = name THEN announcements ELSE announcements + 1
     /\ UNCHANGED not_sel

NextSel ==
  \/ \E backend \in SelBackends, env \in SelEnvs : GetTranslator(backend, env)

\* the backend a configured name stands for
named(backend) ==
  CASE backend \in {"m2m100", "m2m"} -> "m2m100"
    [] backend \in {"local", "marian"} -> "local"
    [] backend \in {"deepl", "aventiq"} -> backend
    [] OTHER -> "noop"

\* the construction or readiness check of a backend succeeds
check_passes(cls, env) ==
  CASE cls = "deepl" -> env.deepl_api_key
    [] cls = "m2m100" -> env.m2m
    [] cls = "aventiq" -> env.aventiq
    [] cls = "local" -> env.local
    [] OTHER -> FALSE

\* C19: for a concrete backend name get_translator returns that backend
\* when its construction and readiness check succeed, and the no-op backend
\* when they fail or the name is not recognised; never another backend.
C19_ExplicitBackend ==
  sel_last.backend \notin {"none", "auto"} =>
    LET cls == named(sel_last.backend)
    IN /\ sel_last.ret \in {cls, "noop"}
       /\ sel_last.ret = cls <=> (cls = "noop" \/ check_passes(cls, sel_last.env))

\* an explicit request whose backend is not ready while another one is
C19_Witness ==
  /\ sel_last.backend = "m2m"
  /\ ~sel_last.env.m2m /\ sel_last.env.aventiq /\ sel_last.env.local
  /\ sel_last.ret = "noop"

\* the name under which each backend is announced
Label ==
  [deepl |-> "DeepL API", m2m100 |-> "M2M100 (local)", aventiq |-> "AventIQ (local)",
   local |-> "Marian local", noop |-> "NoOp translator (sin backend disponible)"]

\* C29: whenever get_translator has returned, the name announced last is
\* the name of the backend it returned, the no-op backend included.
C29_Announced ==
  sel_last.backend # "none" => last_announced = Label[sel_last.ret]

\* a selection that fell back to the no-op backend after another backend
\* had been announced
C29_Witness ==
  /\ sel_last.ret = "noop"
  /\ announcements = MaxAnnouncements
  /\ last_announced = Label["noop"]

\* the candidates of automatic selection, highest priority first
AutoOrder == <<"deepl", "m2m100", "aventiq", "local">>

\* the backend is configured and working
working(cls, env) ==
  CASE cls = "deepl" -> env.deepl_api_key /\ env.deepl_works
    [] cls = "m2m100" -> env.m2m
    [] cls = "aventiq" -> env.aventiq
    [] cls = "local" -> env.local
    [] OTHER -> FALSE

\* C20: with backend 'auto' get_translator returns the first candidate of
\* DeepL (with a key), M2M100, AventIQ, Marian local that is working, and
\* the no-op backend when none is.
C20_AutoOrder ==
  sel_last.backend = "auto" =>
    \/ /\ sel_last.ret = "noop"
       /\ \A i \in 1..Len(AutoOrder) : ~working(AutoOrder[i], sel_last.env)
    \/ \E i \in 1..Len(AutoOrder) :
         /\ sel_last.ret = AutoOrder[i]
         /\ working(AutoOrder[i], sel_last.env)
         /\ \A j \in 1..(i - 1) : ~working(AutoOrder[j], sel_last.env)

\* the chunks whose progress event is out
chunks_done == Len(progress)

\* C28: chunks are processed one after the other in input order, with one
\* progress event after each: event k is for chunk k, its items-done count
\* is the end of chunk k, the counts grow and the last one is the total;
\* no call is made for a chunk before the event of the chunk before it,
\* nor after its own event.
C28_ProgressOrder ==
  /\ [](/\ pc \in {"attempt", "fallback", "emit"} => chunks_done = batch_idx
        /\ pc = "returned" /\ texts # <<>> =>
             /\ chunks_done = batches
             /\ progress[chunks_done].done = Len(texts)
        /\ \A k \in 1..chunks_done :
             /\ progress[k].chunk = k /\ progress[k].of = batches
             /\ progress[k].total = Len(texts)
             /\ progress[k].done = Min(k * chunk, Len(texts))
             /\ k > 1 => progress[k].done > progress[k - 1].done
             /\ calls[k] >= 1
        /\ \A k \in 1..Len(calls) :
             k > chunks_done + 1 => calls[k] = 0 /\ fb_calls[k] = 0)
  /\ [][pc # "idle" =>
         /\ Len(progress') \in {chunks_done, chunks_done + 1}
         /\ SubSeq(progress', 1, chunks_done) = progress
         /\ \A k \in 1..chunks_done :
              calls'[k] = calls[k] /\ fb_calls'[k] = fb_calls[k]]_vars

\* a finished run of several chunks, one of them retried and handed to the
\* fallback, and the last chunk shorter than the others
C28_Witness ==
  /\ pc = "returned"
  /\ chunks_done >= 2
  /\ Len(texts) % chunk # 0
  /\ \E k \in 1..chunks_done : calls[k] > 1 /\ fb_calls[k] > 0

\* C30: with translator_cache_enabled false, get reports a miss for every
\* text, and set and batch_set leave the persistent store unchanged.
C30_DisabledCache ==
  [][~config.enabled =>
       /\ last'.op = "get" => last'.ret = None
       /\ last'.op \in {"set", "batch_set"} => store' = store]_vars

\* ---------------------------------------------- _split_text_by_token_limit
\* c repeated n times
Rep(c, n) == [i \in 1..n |-> c]

\* texts around the length of a coarse slice: one long word, and a long
\* word between short ones
LongTexts ==
  UNION {{Rep("a", MIN_SLICE + k),
          <<"a", " ">> \o Rep("a", MIN_SLICE + k),
          Rep("a", MIN_SLICE + k) \o <<".", " ", "a">>} : k \in 0..MaxTextLen}

SegTexts == TrTexts \cup LongTexts

\* a call: pc is "called" until the segmenter has returned or raised
SegCall(text, tok_raises, max_tokens) ==
  [pc |-> "called", text |-> text, tok_raises |-> tok_raises, max_tokens |-> max_tokens,
   raised |-> FALSE, chunks |-> <<>>]

\* _split_text_by_token_limit has been called on some text
InitSeg ==
  seg_last \in {SegCall(text, r, m) : text \in SegTexts, r \in BOOLEAN, m \in 1..MaxTokens}

\* the call runs to its end: every tokenizer call sits in a try block, so
\* the segmenter returns
Segment ==
  /\ seg_last.pc = "called"
  /\ seg_last' = [seg_last EXCEPT
                    !.pc = "returned",
                    !.chunks = split_text_by_token_limit(seg_last.text, seg_last.tok_raises,
                                                         seg_last.max_tokens)]
  /\ UNCHANGED not_seg

NextSeg ==
  \/ Segment

\* str.split(): the whitespace-separated words of a text
RECURSIVE words(_)
words(t) ==
  LET s == LStrip(t, SpaceChars)
      ends == {i \in 1..Len(s) : s[i] \in SpaceChars}
  IN IF s = <<>> THEN <<>>
     ELSE IF ends = {} THEN <<s>>
     ELSE LET i == CHOOSE e \in ends : \A d \in ends : e <= d
          IN <<SubSeq(s, 1, i - 1)>> \o words(SubSeq(s, i, Len(s)))

\* C22: every chunk the segmenter returns measures at most max_tokens
\* under the tokenizer's untruncated length function.
C22_ChunksFit ==
  (seg_last.pc = "returned" /\ ~seg_last.tok_raises) =>
    \A i \in 1..Len(seg_last.chunks) : ntok(seg_last.chunks[i]) <= seg_last.max_tokens

\* C23: the chunks joined with single spaces have the words of the text,
\* in order.
C23_WordSequence ==
  seg_last.pc = "returned" => words(join_space(seg_last.chunks)) = words(seg_last.text)

approx_of(max_tokens) == Max(max_tokens * 2, MIN_SLICE)

\* the characters of a text that are no whitespace
nonspace(t) == SelectSeq(t, LAMBDA c : c \notin SpaceChars)

MaxLoads == 2

Threads == {"t1", "t2"}
Kinds == {"marian", "m2m100", "aventiq"}

\* the test that returns at once: tokenizer and model are set (lines 112,
\* 541); for AventIQ the pipeline is set (line 965)
is_loaded(k) == IF k = "aventiq" THEN ld_model[k] ELSE ld_tokenizer[k] /\ ld_model[k]

\* the second test, under the lock, left out
loaded_under_lock_unchecked(k) == FALSE
\* the second test, under the lock (lines 115, 544, 970)
loaded_under_lock(k) == is_loaded(k)

\* the kinds that refuse to load when heavy dependencies are missing
\* (lines 110, 967); M2MTranslator.ensure_loaded has no such test
refuses(k) == forbidden /\ k \in {"marian", "aventiq"}

InitLoad ==
  /\ forbidden \in BOOLEAN
  /\ ld_tokenizer = [k \in Kinds |-> FALSE]
  /\ ld_model = [k \in Kinds |-> FALSE]
  /\ ld_lock = [k \in Kinds |-> "free"]
  /\ ld_pc = [t \in Threads |-> "idle"]
  /\ ld_kind = [t \in Threads |-> "marian"]
  /\ ld_loads = [k \in Kinds |-> 0]
  /\ ld_late = [k \in Kinds |-> FALSE]

\* thread t calls the loading function of kind k, from get_translator or
\* from translate: it returns at once when the kind is loaded (or, for
\* Marian, raises at once when loading is forbidden), else goes for the lock.
\* AventIQ tests the pipeline first and the flag second.
EnsureLoaded(t, k) ==
  /\ ld_pc[t] = "idle"
  /\ ld_kind' = [ld_kind EXCEPT ![t] = k]
  /\ ld_pc' = [ld_pc EXCEPT ![t] =
                 IF k = "marian" /\ refuses(k) THEN "idle"
                 ELSE IF is_loaded(k) THEN "idle"
                 ELSE IF refuses(k) THEN "idle"
                 ELSE "acquire"]
  /\ UNCHANGED <<forbidden, ld_tokenizer, ld_model, ld_lock, ld_loads, ld_late>>
  /\ UNCHANGED not_load

\* with lock: the thread blocks until the lock is free
Acquire(t) ==
  /\ ld_pc[t] = "acquire"
  /\ ld_lock[ld_kind[t]] = "free"
  /\ ld_lock' = [ld_lock EXCEPT ![ld_kind[t]] = t]
  /\ ld_pc' = [ld_pc EXCEPT ![t] = "locked"]
  /\ UNCHANGED <<forbidden, ld_tokenizer, ld_model, ld_kind, ld_loads, ld_late>>
  /\ UNCHANGED not_load

\* the second test: loaded by now, the thread leaves the lock and returns
AlreadyLoaded(t) ==
  /\ ld_pc[t] = "locked"
  /\ loaded_under_lock(ld_kind[t])
  /\ ld_lock' = [ld_lock EXCEPT ![ld_kind[t]] = "free"]
  /\ ld_pc' = [ld_pc EXCEPT ![t] = "idle"]
  /\ UNCHANGED <<forbidden, ld_tokenizer, ld_model, ld_kind, ld_loads, ld_late>>
  /\ UNCHANGED not_load

\* the second test: not loaded, the load starts
StartLoad(t) ==
  /\ ld_pc[t] = "locked"
  /\ ~loaded_under_lock(ld_kind[t])
  /\ ld_loads[ld_kind[t]] < MaxLoads
  /\ ld_loads' = [ld_loads EXCEPT ![ld_kind[t]] = @ + 1]
  /\ ld_late' = [ld_late EXCEPT ![ld_kind[t]] = @ \/ is_loaded(ld_kind[t])]
  /\ ld_pc' = [ld_pc EXCEPT ![t] = "load_tokenizer"]
  /\ UNCHANGED <<forbidden, ld_tokenizer, ld_model, ld_lock, ld_kind>>
  /\ UNCHANGED not_load

\* the import and Tokenizer.from_pretrained: on success the tokenizer is
\* set (AventIQ keeps it in a local until the pipeline is built); when it
\* raises, the lock is left and the caller gets the exception
LoadTokenizer(t, ok) ==
  /\ ld_pc[t] = "load_tokenizer"
  /\ IF ok
       THEN /\ ld_tokenizer' = [ld_tokenizer EXCEPT ![ld_kind[t]] = @ \/ ld_kind[t] # "aventiq"]
            /\ ld_pc' = [ld_pc EXCEPT ![t] = "load_model"]
            /\ UNCHANGED ld_lock
       ELSE /\ ld_lock' = [ld_lock EXCEPT ![ld_kind[t]] = "free"]
            /\ ld_pc' = [ld_pc EXCEPT ![t] = "idle"]
            /\ UNCHANGED ld_tokenizer
  /\ UNCHANGED <<forbidden, ld_model, ld_kind, ld_loads, ld_late>>
  /\ UNCHANGED not_load

\* Model.from_pretrained (for AventIQ, up to the pipeline): on success the
\* model is set; either way the lock is left
LoadModel(t, ok) ==
  /\ ld_pc[t] = "load_model"
  /\ ld_model' = [ld_model EXCEPT ![ld_kind[t]] = @ \/ ok]
  /\ ld_tokenizer' = [ld_tokenizer EXCEPT ![ld_kind[t]] = @ \/ ok]
  /\ ld_lock' = [ld_lock EXCEPT ![ld_kind[t]] = "free"]
  /\ ld_pc' = [ld_pc EXCEPT ![t] = "idle"]
  /\ UNCHANGED <<forbidden, ld_kind, ld_loads, ld_late>>
  /\ UNCHANGED not_load

NextLoad ==
  \/ \E t \in Threads, k \in Kinds : EnsureLoaded(t, k)
  \/ \E t \in Threads : Acquire(t)
  \/ \E t \in Threads : AlreadyLoaded(t)
  \/ \E t \in Threads : StartLoad(t)
  \/ \E t \in Threads, ok \in BOOLEAN : LoadTokenizer(t, ok)
  \/ \E t \in Threads, ok \in BOOLEAN : LoadModel(t, ok)

\* the threads inside the loading section of kind k
loading(k) == {t \in Threads : ld_kind[t] = k /\ ld_pc[t] \in {"load_tokenizer", "load_model"}}

\* C21: for each local kind at most one thread at a time is inside the
\* loading section, the others wait for the kind's lock, and no load of a
\* kind starts once a load of it has succeeded.
C21_LoadOnce ==
  \A k \in Kinds :
    /\ Cardinality(loading(k)) <= 1
    /\ \A t \in loading(k) : ld_lock[k] = t
    /\ ~ld_late[k]

\* a thread that found the kind not loaded holds the lock after another
\* thread's load has succeeded
C21_Witness ==
  \E t \in Threads :
    /\ ld_pc[t] = "locked"
    /\ is_loaded(ld_kind[t])
    /\ ld_loads[ld_kind[t]] >= 1

\* ------------------------------------- the persistent cache, several threads
\* the texts the threads store and look up: two texts with different keys
ConcTexts == {<<"a">>, <<"'", "b", "'">>}
\* the maps batch_set is called with here: one text, and both texts
ConcMaps ==
  { <<[text |-> <<"'", "b", "'">>, val |-> <<"#", "a">>]>>,
    <<[text |-> <<"a">>, val |-> <<"a">>], [text |-> <<"'", "b", "'">>, val |-> <<"#", "a">>]>> }

NoCall == [op |-> "none", items |-> <<>>]

InitConc ==
  /\ c_pc = [t \in Threads |-> "idle"]
  /\ c_call = [t \in Threads |-> NoCall]
  /\ c_data = [t \in Threads |-> <<>>]

\* set(text, target_lang, value), the value being the backend's
\* translation of the text, up to the call of _save_cache (lines
\* 131-137): the store is loaded and the entry put into the local data,
\* outside any lock.  With the cache disabled the call returns at once.
ConcSet(t, text) ==
  LET items == <<[text |-> text, val |-> BackendText(text)]>>
      data == put_all(store, items, TargetLang, clock)
  IN /\ c_pc[t] = "idle"
     /\ Cardinality(DOMAIN data) <= MaxEntries
     /\ IF config.enabled
          THEN /\ c_pc' = [c_pc EXCEPT ![t] = "save"]
               /\ c_call' = [c_call EXCEPT ![t] = [op |-> "set", items |-> items]]
               /\ c_data' = [c_data EXCEPT ![t] = data]
          ELSE UNCHANGED conc_vars
     /\ UNCHANGED <<store, file_lock, stored>>
     /\ UNCHANGED not_conc

\* batch_set(map_items, target_lang) up to the call of _save_cache (lines
\* 160-163)
ConcBatchSet(t, items) ==
  LET data == put_all(store, items, TargetLang, clock)
  IN /\ c_pc[t] = "idle"
     /\ Cardinality(DOMAIN data) <= MaxEntries
     /\ c_pc' = [c_pc EXCEPT ![t] = "save"]
     /\ c_call' = [c_call EXCEPT ![t] = [op |-> "batch_set", items |-> items]]
     /\ c_data' = [c_data EXCEPT ![t] = data]
     /\ UNCHANGED <<store, file_lock, stored>>
     /\ UNCHANGED not_conc

\* _save_cache, line 47: with file_lock.  The thread blocks until the lock
\* is free; a threading.Lock is not reentrant, so a thread that holds the
\* lock itself blocks here for good.
SaveAcquire(t) ==
  /\ c_pc[t] = "save"
  /\ file_lock = "free"
  /\ file_lock' = t
  /\ c_pc' = [c_pc EXCEPT ![t] = "dump"]
  /\ UNCHANGED <<store, stored, c_call, c_data>>
  /\ UNCHANGED not_conc

\* _save_cache, lines 48-51: the local data replaces the file, the lock is
\* left and the call returns
SaveReplace(t) ==
  /\ c_pc[t] = "dump"
  /\ store' = c_data[t]
  /\ stored' = stored_all(stored, c_call[t].items, TargetLang)
  /\ file_lock' = "free"
  /\ c_pc' = [c_pc EXCEPT ![t] = "idle"]
  /\ c_call' = [c_call EXCEPT ![t] = NoCall]
  /\ UNCHANGED c_data
  /\ UNCHANGED not_conc

\* get(text, target_lang), lines 96-125, and each turn of batch_get: a miss
\* or a fresh hit returns; an expired hit goes on to remove the entry
ConcGet(t, text) ==
  LET key == make_key(text, TargetLang)
      hits_expired == config.enabled /\ key \in DOMAIN store /\ expired(store[key], clock)
  IN /\ c_pc[t] = "idle"
     /\ IF hits_expired
          THEN /\ c_pc' = [c_pc EXCEPT ![t] = "expired"]
               /\ c_call' = [c_call EXCEPT ![t] =
                               [op |-> "get", items |-> <<[text |-> text, val |-> NoText]>>]]
               /\ c_data' = [c_data EXCEPT ![t] = store]
          ELSE UNCHANGED conc_vars
     /\ UNCHANGED <<store, file_lock, stored>>
     /\ UNCHANGED not_conc

\* get, lines 119-121: with file_lock: data.pop(key); _save_cache(data).
\* The thread enters _save_cache holding the lock.
ExpiredAcquire(t) ==
  /\ c_pc[t] = "expired"
  /\ file_lock = "free"
  /\ file_lock' = t
  /\ c_data' = [c_data EXCEPT ![t] = pop(@, make_key(c_call[t].items[1].text, TargetLang))]
  /\ c_pc' = [c_pc EXCEPT ![t] = "save"]
  /\ UNCHANGED <<store, stored, c_call>>
  /\ UNCHANGED not_conc

\* clear(), lines 203-208: the summary is taken, then the lock
ConcClear(t) ==
  /\ c_pc[t] = "idle"
  /\ c_pc' = [c_pc EXCEPT ![t] = "clear"]
  /\ c_call' = [c_call EXCEPT ![t] = [op |-> "clear", items |-> <<>>]]
  /\ UNCHANGED <<store, file_lock, stored, c_data>>
  /\ UNCHANGED not_conc

\* clear(), lines 208-217: under the lock the file is removed
ClearUnlink(t) ==
  /\ c_pc[t] = "clear"
  /\ file_lock = "free"
  /\ store' = <<>>
  /\ stored' = <<>>
  /\ c_pc' = [c_pc EXCEPT ![t] = "idle"]
  /\ c_call' = [c_call EXCEPT ![t] = NoCall]
  /\ UNCHANGED <<file_lock, c_data>>
  /\ UNCHANGED not_conc

NextConc ==
  \/ \E t \in Threads, text \in ConcTexts : ConcSet(t, text)
  \/ \E t \in Threads, items \in ConcMaps : ConcBatchSet(t, items)
  \/ \E t \in Threads : SaveAcquire(t)
  \/ \E t \in Threads : SaveReplace(t)
  \/ \E t \in Threads, text \in ConcTexts : ConcGet(t, text)
  \/ \E t \in Threads : ExpiredAcquire(t)
  \/ \E t \in Threads : ConcClear(t)
  \/ \E t \in Threads : ClearUnlink(t)
  \/ Tick

\* no cache call is in progress
quiescent == \A t \in Threads : c_pc[t] = "idle"

\* C25: no thread requests file_lock while it holds it (a thread that does
\* never returns), and file_lock is free whenever no cache call is in
\* progress.
C25_LockDiscipline ==
  /\ \A t \in Threads : ~(c_pc[t] \in {"save", "expired", "clear"} /\ file_lock = t)
  /\ quiescent => file_lock = "free"

\* C26: no update is lost: when no call is in progress the store holds
\* what every set and batch_set that completed since the last clear has
\* written.
C26_NoLostUpdate ==
  quiescent =>
    \A p \in DOMAIN stored : p \in DOMAIN store /\ store[p].value = stored[p]

\* ------------------------------------------ the part caches, several threads
\* the backend whose lookup and insertion run under a lock:
\* M2MTranslator._cache_get / _cache_set, with cls._lock (lines 620, 631)
locked_cache(b) == b = "m2m"

NoOp == [key |-> "none", value |-> "none"]
\* the translation the threads insert
ThreadValues == {"x"}

InitPart ==
  /\ p_pc = [t \in Threads |-> "idle"]
  /\ p_op = [t \in Threads |-> NoOp]
  /\ p_seen = [t \in Threads |-> <<>>]
  /\ p_raced = FALSE

\* a lookup under the lock: test, refresh and read in one piece
LockedLookup(t, key) ==
  /\ p_pc[t] = "idle"
  /\ locked_cache(lru_backend)
  /\ part_cache' = cache_get(lru_backend, part_cache, key).cache
  /\ UNCHANGED part_vars
  /\ UNCHANGED not_part

\* an insertion under the lock, in one piece
LockedInsert(t, key, value) ==
  /\ p_pc[t] = "idle"
  /\ locked_cache(lru_backend)
  /\ part_cache' = cache_set(lru_backend, part_cache, cache_size, key, value)
  /\ UNCHANGED part_vars
  /\ UNCHANGED not_part

\* a lookup without a lock, first step: "if key in cache" (lines 392, 1016)
TestPresent(t, key) ==
  /\ p_pc[t] = "idle"
  /\ ~locked_cache(lru_backend)
  /\ IF key \in keys_of(part_cache)
       THEN /\ p_pc' = [p_pc EXCEPT ![t] = "found"]
            /\ p_op' = [p_op EXCEPT ![t] = [key |-> key, value |-> "none"]]
            /\ p_seen' = [p_seen EXCEPT ![t] = part_cache]
       ELSE UNCHANGED <<p_pc, p_op, p_seen>>
  /\ UNCHANGED <<part_cache, p_raced>>
  /\ UNCHANGED not_part

\* second step: the refresh (AventIQ, line 1017) and the read cache[key]
\* (lines 393, 1018); a key that is gone by now raises KeyError
ReadFound(t) ==
  /\ p_pc[t] = "found"
  /\ part_cache' = cache_get(lru_backend, part_cache, p_op[t].key).cache
  /\ p_raced' = (p_raced \/ part_cache # p_seen[t])
  /\ p_pc' = [p_pc EXCEPT ![t] = "idle"]
  /\ p_op' = [p_op EXCEPT ![t] = NoOp]
  /\ p_seen' = [p_seen EXCEPT ![t] = <<>>]
  /\ UNCHANGED not_part

\* an insertion without a lock, first step: "if key in cache" (lines 377, 1027)
TestHeld(t, key, value) ==
  /\ p_pc[t] = "idle"
  /\ ~locked_cache(lru_backend)
  /\ p_pc' = [p_pc EXCEPT ![t] = IF key \in keys_of(part_cache) THEN "held" ELSE "new"]
  /\ p_op' = [p_op EXCEPT ![t] = [key |-> key, value |-> value]]
  /\ p_seen' = [p_seen EXCEPT ![t] = part_cache]
  /\ UNCHANGED <<part_cache, p_raced>>
  /\ UNCHANGED not_part

\* second step: move_to_end for a key found held (KeyError when it is gone
\* by now), and cache[key] = value; the overflow test is next, except for
\* a held key in LocalTranslator
Assign(t) ==
  /\ p_pc[t] \in {"held", "new"}
  /\ LET key == p_op[t].key
         gone == p_pc[t] = "held" /\ key \notin keys_of(part_cache)
         moved == IF p_pc[t] = "held" /\ ~gone THEN move_to_end(part_cache, key)
                  ELSE part_cache
     IN /\ part_cache' = IF gone THEN part_cache ELSE assign(moved, key, p_op[t].value)
        /\ p_pc' = [p_pc EXCEPT ![t] =
                      IF gone \/ (p_pc[t] = "held" /\ lru_backend = "local")
                        THEN "idle" ELSE "overflow"]
  /\ p_raced' = (p_raced \/ part_cache # p_seen[t])
  /\ p_seen' = [p_seen EXCEPT ![t] = part_cache']
  /\ p_op' = [p_op EXCEPT ![t] = IF p_pc'[t] = "idle" THEN NoOp ELSE @]
  /\ UNCHANGED not_part

\* third step: "if len(cache) > cache_size: popitem(last=False)"
Overflow(t) ==
  /\ p_pc[t] = "overflow"
  /\ part_cache' = IF over_capacity(part_cache, cache_size) THEN popitem_first(part_cache)
                   ELSE part_cache
  /\ p_raced' = (p_raced \/ part_cache # p_seen[t])
  /\ p_pc' = [p_pc EXCEPT ![t] = "idle"]
  /\ p_op' = [p_op EXCEPT ![t] = NoOp]
  /\ p_seen' = [p_seen EXCEPT ![t] = <<>>]
  /\ UNCHANGED not_part

NextPart ==
  \/ \E t \in Threads, key \in PartKeys : LockedLookup(t, key)
  \/ \E t \in Threads, key \in PartKeys, value \in ThreadValues : LockedInsert(t, key, value)
  \/ \E t \in Threads, key \in PartKeys : TestPresent(t, key)
  \/ \E t \in Threads : ReadFound(t)
  \/ \E t \in Threads, key \in PartKeys, value \in ThreadValues : TestHeld(t, key, value)
  \/ \E t \in Threads : Assign(t)
  \/ \E t \in Threads : Overflow(t)

\* C27: the operations of concurrent threads on a backend's part cache
\* exclude each other: no thread goes on with its operation on a cache
\* that another thread has changed since the operation's membership test.
C27_CacheExclusion == ~p_raced

\* ======================================================= specifications
DefaultConfig == [enabled |-> TRUE, lower |-> TRUE]

\* the components a specification leaves alone stay in one fixed state
FileAtRest == path_file = File("missing", <<>>)
LruAtRest == lru_backend = "local" /\ cache_size = 1
TrAtRest ==
  tr_last = TrCall("noop", <<>>, [loaded |-> TRUE, gen |-> "ok", tok_raises |-> FALSE,
                                  max_tokens |-> 1, cached |-> FALSE])
SegAtRest == seg_last = SegCall(<<>>, FALSE, 1)
LoadAtRest == ~forbidden
MoreAtRest == InitSeg /\ SegAtRest /\ InitLoad /\ LoadAtRest /\ InitConc /\ InitPart
AtRest == InitFile /\ FileAtRest /\ InitLRU /\ LruAtRest /\ InitTr /\ TrAtRest /\ InitSel
            /\ MoreAtRest

\* the orchestrator alone
InitB == InitBatch /\ InitCache /\ config = DefaultConfig /\ AtRest
SpecBatch == InitB /\ [][NextBatch]_vars

\* the persistent cache alone, with the default lower-casing (SpecStore
\* and SpecNorm cover both settings)
InitC == InitBatch /\ InitCache /\ config.lower /\ AtRest
SpecCache == InitC /\ [][NextCache]_vars

\* the facade and the persistent cache
Init == InitBatch /\ InitCache /\ AtRest
Spec == Init /\ [][Next]_vars

\* set, batch_set, get and clear on the persistent cache
InitS == InitBatch /\ InitCache /\ AtRest
SpecStore == InitS /\ [][NextStore]_vars

\* the persistent cache, one file operation at a time
InitF == InitBatch /\ InitCache /\ InitFile /\ config = DefaultConfig
           /\ InitLRU /\ LruAtRest /\ InitTr /\ TrAtRest /\ InitSel /\ MoreAtRest
SpecFile == InitF /\ [][NextFile]_vars

\* the part cache of one backend
InitL == InitBatch /\ InitCache /\ config = DefaultConfig /\ InitFile /\ FileAtRest /\ InitLRU
           /\ InitTr /\ TrAtRest /\ InitSel /\ MoreAtRest
SpecLRU == InitL /\ [][NextLRU]_vars

\* translate of one backend
InitT == InitBatch /\ InitCache /\ config = DefaultConfig /\ InitFile /\ FileAtRest
           /\ InitLRU /\ LruAtRest /\ InitTr /\ InitSel /\ MoreAtRest
SpecTr == InitT /\ [][NextTr]_vars

\* the segmenter alone
InitE == InitBatch /\ InitCache /\ config = DefaultConfig /\ InitFile /\ FileAtRest
           /\ InitLRU /\ LruAtRest /\ InitTr /\ TrAtRest /\ InitSel /\ InitSeg
           /\ InitLoad /\ LoadAtRest /\ InitConc /\ InitPart
SpecSeg == InitE /\ [][NextSeg]_vars

\* model loading by several threads
InitO == InitBatch /\ InitCache /\ config = DefaultConfig /\ InitFile /\ FileAtRest
           /\ InitLRU /\ LruAtRest /\ InitTr /\ TrAtRest /\ InitSel /\ InitSeg /\ SegAtRest
           /\ InitLoad /\ InitConc /\ InitPart
SpecLoad == InitO /\ [][NextLoad]_vars

\* the part cache of one backend called from several threads
InitP == InitBatch /\ InitCache /\ config = DefaultConfig /\ InitFile /\ FileAtRest /\ InitLRU
           /\ InitTr /\ TrAtRest /\ InitSel /\ MoreAtRest
SpecPart == InitP /\ [][NextPart]_vars

\* the persistent cache called from several threads
InitK == InitBatch /\ InitCache /\ config.lower /\ AtRest
SpecConc == InitK /\ [][NextConc]_vars

\* the selector alone
InitG == InitBatch /\ InitCache /\ config = DefaultConfig /\ AtRest
SpecSelect == InitG /\ [][NextSel]_vars

\* key normalization alone
InitN == InitBatch /\ InitCache /\ AtRest
SpecNorm == InitN /\ [][NextNorm]_vars

====
